---- MODULE Spec2Model ----
(***************************************************************************)
(* A model of ddptensor's jit cycle: the Registry of array futures, the    *)
(* dependency manager (DepManager) that threads deferred operations into   *)
(* one jit function, and the JIT engine with its execution-engine cache.   *)
(*                                                                         *)
(* The dependency manager's methods are operators on a record holding its  *)
(* fields and the Registry; every action of the specification applies one  *)
(* method (or one step of the worker) and commits the record it returns.   *)
(***************************************************************************)
EXTENDS Integers, Sequences, FiniteSets, TLC

\* ------------------------------------------------------------- bounds
MaxRank == 1      \* arrays are scalars (rank 0) or of rank MaxRank
MaxSteps == 4     \* front-end registrations and DepManager calls of one run
MaxRuns == 3      \* calls of JIT::run of one process
MaxNodes == 3     \* nodes the front-end threads enqueue

Guids == 1..MaxSteps
Ranks == {0, MaxRank}
Teams == {0, 1}   \* 0: not distributed, else a communicator id
Threads == {1, 2} \* the front-end threads

\* ----------------------------------------------------------- state
VARIABLES
  registry,     \* Registry: guid -> future, the futures being [guid, rank, team]
  nextGuid,     \* Registry: the next id to hand out
  ivm,          \* DepManager::_ivm: guid -> mlir value, in iteration order
  args,         \* DepManager::_args: sequence of (guid, future)
  icm,          \* DepManager::_icm: guid -> delivery callback
  icr,          \* DepManager::_icr: guid -> sequence of ready callbacks
  irm,          \* DepManager::_irm: guid -> (rank, isDist)
  func,         \* DepManager::_func: the jit function (arguments, body, results, return)
  ret,          \* what the last DepManager call returned or threw
  calls,        \* the calls nodes made to the DepManager in the current batch
  dropped,      \* the guids drop was called for so far
  phase,        \* position of the current batch in the jit cycle
  nodes,        \* the Deferred nodes created: guid -> [rank, team, emitted]
  nsteps,       \* front-end registrations and DepManager calls made so far
  inp,          \* the words store_inputs returned
  osz,          \* the size handleResult returned
  outpos,       \* deliver's read position in the output buffer when it returned
  delivered,    \* delivery callbacks invoked by deliver, in order
  readied,      \* ready callbacks invoked by deliver, in order
  useCache,     \* JIT::_useCache
  engineCache,  \* JIT::run's engineCache: digest -> execution engine
  nEngines,     \* execution engines constructed so far
  ran,          \* what the calls of JIT::run so far did, in order
  jit,          \* the JIT as its constructor left it, with the environment it read
  queue,        \* the FIFO of runnables
  pushed,       \* the nodes the front-end threads have enqueued, in order
  sent,         \* per front-end thread, the number of nodes it has enqueued
  dropreq,      \* the guids whose handle a front-end has released
  processed,    \* the nodes the worker has called generate_mlir of, in order
  batch,        \* the nodes that generated MLIR into the current module
  eager,        \* the node whose generate_mlir asked for its run()
  fulfilled     \* the nodes whose promise was given its value, in order

dmvars == <<ivm, args, icm, icr, irm, func, ret>>
postvars == <<inp, osz, outpos, delivered, readied>>
jitvars == <<useCache, engineCache, nEngines, ran, jit>>
schedvars == <<queue, pushed, sent, dropreq, processed, batch, eager, fulfilled>>
vars == <<registry, nextGuid, nodes, ivm, args, icm, icr, irm, func, ret, calls,
          dropped, phase, nsteps, inp, osz, outpos, delivered, readied,
          useCache, engineCache, nEngines, ran, jit,
          queue, pushed, sent, dropreq, processed, batch, eager, fulfilled>>

\* ---------------------------------------------------- containers
\* The guid-keyed maps of the DepManager. _ivm is a sequence of (guid, val)
\* pairs in iteration order; the others are functions on the guids they hold.
Keys(m) == {m[i].guid : i \in DOMAIN m}

MapHas(m, guid) == guid \in Keys(m)

MapFind(m, guid) == CHOOSE i \in DOMAIN m : m[i].guid = guid

MapGet(m, guid) == m[MapFind(m, guid)].val

\* m[guid] = val: overwrite in place, or insert as the last entry
MapSet(m, guid, val) ==
  IF MapHas(m, guid)
    THEN [m EXCEPT ![MapFind(m, guid)].val = val]
    ELSE Append(m, [guid |-> guid, val |-> val])

MapErase(m, guid) == SelectSeq(m, LAMBDA e : e.guid # guid)

FnSet(f, k, v) == [x \in (DOMAIN f) \cup {k} |-> IF x = k THEN v ELSE f[x]]

FnErase(f, k) == [x \in (DOMAIN f) \ {k} |-> f[x]]

EmptyFn == [x \in {} |-> 0]

\* insert x so that it becomes element number idx (0-based), as
\* FuncOp::insertArgument / insertResult do
InsertAt(seq, idx, x) ==
  SubSeq(seq, 1, idx) \o <<x>> \o SubSeq(seq, idx + 1, Len(seq))

\* ------------------------------------------------------- values
NoVal == [src |-> "none", n |-> 0, rank |-> 0, dist |-> FALSE]

NullVal == [src |-> "null", n |-> 0, rank |-> 0, dist |-> FALSE]

\* what a call returned: its value, or the error it threw
Ok(val) == [ok |-> TRUE, val |-> val, err |-> "none"]

Threw(err) == [ok |-> FALSE, val |-> NoVal, err |-> err]

EmptyFunc == [args |-> <<>>, body |-> <<>>, results |-> <<>>, retvals |-> <<>>,
              returned |-> FALSE]

\* ------------------------------------------------------ Registry
\* Registry::get: the future of guid, or a miss
RegistryHas(reg, guid) == guid \in DOMAIN reg

\* Registry::del
RegistryDel(reg, guid) == FnErase(reg, guid)

\* ------------------------------------------------------ sizes
\* size of a memref descriptor in words
memref_sz(rank) == 3 + 2 * rank

\* size of what the jit function returns for one array
ptensor_sz(rank, isDist) ==
  IF isDist /\ rank > 0 THEN 3 * memref_sz(rank) + memref_sz(1)
                        ELSE memref_sz(rank)

\* ------------------------------------------------- DepManager
\* the type getTType builds for a future: its rank and whether it carries a
\* distributed environment
getTType(fut) == [rank |-> fut.rank, dist |-> fut.team # 0]

\* the dtype tags getTType and dispatch have a case for, and the tag past them
DTypeIds ==
  {"FLOAT64", "FLOAT32", "INT64", "INT32", "INT16", "INT8", "UINT64", "UINT32",
   "UINT16", "UINT8", "BOOL"}

DTYPE_LAST == "DTYPE_LAST"

\* the element type with the unsigned dtypes lowered to unsigned integers
etyp_signed(dtype) ==
  CASE dtype = "FLOAT64" -> [ok |-> TRUE, t |-> "f64", err |-> "none"]
    [] dtype = "FLOAT32" -> [ok |-> TRUE, t |-> "f32", err |-> "none"]
    [] dtype = "INT64" -> [ok |-> TRUE, t |-> "i64", err |-> "none"]
    [] dtype = "UINT64" -> [ok |-> TRUE, t |-> "ui64", err |-> "none"]
    [] dtype = "INT32" -> [ok |-> TRUE, t |-> "i32", err |-> "none"]
    [] dtype = "UINT32" -> [ok |-> TRUE, t |-> "ui32", err |-> "none"]
    [] dtype = "INT16" -> [ok |-> TRUE, t |-> "i16", err |-> "none"]
    [] dtype = "UINT16" -> [ok |-> TRUE, t |-> "ui16", err |-> "none"]
    [] dtype = "INT8" -> [ok |-> TRUE, t |-> "i8", err |-> "none"]
    [] dtype = "UINT8" -> [ok |-> TRUE, t |-> "ui8", err |-> "none"]
    [] dtype = "BOOL" -> [ok |-> TRUE, t |-> "i1", err |-> "none"]
    [] OTHER -> [ok |-> FALSE, t |-> "none", err |-> "unknown dtype"]

\* getTType, switch (dtype): the element type of the dtype, or the throw
etyp(dtype) ==
  CASE dtype = "FLOAT64" -> [ok |-> TRUE, t |-> "f64", err |-> "none"]
    [] dtype = "FLOAT32" -> [ok |-> TRUE, t |-> "f32", err |-> "none"]
    [] dtype \in {"INT64", "UINT64"} -> [ok |-> TRUE, t |-> "i64", err |-> "none"]
    [] dtype \in {"INT32", "UINT32"} -> [ok |-> TRUE, t |-> "i32", err |-> "none"]
    [] dtype \in {"INT16", "UINT16"} -> [ok |-> TRUE, t |-> "i16", err |-> "none"]
    [] dtype \in {"INT8", "UINT8"} -> [ok |-> TRUE, t |-> "i8", err |-> "none"]
    [] dtype = "BOOL" -> [ok |-> TRUE, t |-> "i1", err |-> "none"]
    [] OTHER -> [ok |-> FALSE, t |-> "none", err |-> "unknown dtype"]

\* dispatch: the C++ type func is called with a pointer to, or the throw
dispatch(dt) ==
  CASE dt = "FLOAT64" -> [ok |-> TRUE, t |-> "double", err |-> "none"]
    [] dt = "FLOAT32" -> [ok |-> TRUE, t |-> "float", err |-> "none"]
    [] dt = "INT64" -> [ok |-> TRUE, t |-> "int64_t", err |-> "none"]
    [] dt = "INT32" -> [ok |-> TRUE, t |-> "int32_t", err |-> "none"]
    [] dt = "INT16" -> [ok |-> TRUE, t |-> "int16_t", err |-> "none"]
    [] dt = "INT8" -> [ok |-> TRUE, t |-> "int8_t", err |-> "none"]
    [] dt = "UINT64" -> [ok |-> TRUE, t |-> "uint64_t", err |-> "none"]
    [] dt = "UINT32" -> [ok |-> TRUE, t |-> "uint32_t", err |-> "none"]
    [] dt = "UINT16" -> [ok |-> TRUE, t |-> "uint16_t", err |-> "none"]
    [] dt = "UINT8" -> [ok |-> TRUE, t |-> "uint8_t", err |-> "none"]
    [] dt = "BOOL" -> [ok |-> TRUE, t |-> "bool", err |-> "none"]
    [] OTHER -> [ok |-> FALSE, t |-> "none", err |-> "unknown dtype"]

\* DistEnvAttr::get(team, rank) and DistEnvAttr::get(team, lOffs, parts)
DistEnvAttr(team, rank) ==
  [kind |-> "dist", team |-> team, rank |-> rank, lOffs |-> <<>>, parts |-> <<>>,
   device |-> ""]

DistEnvAttrParts(team, lOffs, parts) ==
  [kind |-> "dist", team |-> team, rank |-> Len(lOffs), lOffs |-> lOffs,
   parts |-> parts, device |-> ""]

GPUEnvAttr(device) ==
  [kind |-> "gpu", team |-> 0, rank |-> 0, lOffs |-> <<>>, parts |-> <<>>,
   device |-> device]

\* mkEnvs that attaches the gpu environment whatever the device
mkEnvs_anydevice(rank, device, team) ==
  (IF team # 0 THEN <<DistEnvAttr(team, rank)>> ELSE <<>>) \o <<GPUEnvAttr(device)>>

mkEnvs(rank, device, team) ==
  (IF team # 0 THEN <<DistEnvAttr(team, rank)>> ELSE <<>>) \o
  (IF device # "" THEN <<GPUEnvAttr(device)>> ELSE <<>>)

PTensorType(shape, t, envs) == [shape |-> shape, etyp |-> t, envs |-> envs]

\* getTType over the owned shape whatever the team
getTTypeOf_local(dtype, gShape, lhShape, ownShape, rhShape, device, team, lOffs) ==
  LET e == etyp(dtype)
  IN IF ~e.ok THEN [ok |-> FALSE, typ |-> PTensorType(<<>>, "none", <<>>), err |-> e.err]
     ELSE [ok |-> TRUE, err |-> "none",
           typ |-> PTensorType(ownShape, e.t, mkEnvs(Len(gShape), device, 0))]

\* getTType with all its parameters: the type of an array of the dtype with
\* the global shape gShape, the shapes of the left halo, the owned part and
\* the right halo, on the device, of the team, at the offsets lOffs
getTTypeOf(dtype, gShape, lhShape, ownShape, rhShape, device, team, lOffs) ==
  LET e == etyp(dtype)
      rank == Len(gShape)
      envs == mkEnvs(rank, device, 0)
  IN IF ~e.ok THEN [ok |-> FALSE, typ |-> PTensorType(<<>>, "none", <<>>), err |-> e.err]
     ELSE IF team # 0
       THEN IF rank # 0
              THEN [ok |-> TRUE, err |-> "none",
                    typ |-> PTensorType(gShape, e.t,
                               Append(envs, DistEnvAttrParts(team, SubSeq(lOffs, 1, rank),
                                                  <<lhShape, ownShape, rhShape>>)))]
              ELSE [ok |-> TRUE, err |-> "none",
                    typ |-> PTensorType(<<>>, e.t, Append(envs, DistEnvAttr(team, 0)))]
       ELSE [ok |-> TRUE, err |-> "none", typ |-> PTensorType(ownShape, e.t, envs)]

\* a shape an array may not have: a null pointer
NullShape == [null |-> TRUE, v |-> <<>>]

ShapeAt(v) == [null |-> FALSE, v |-> v]

\* getDependent, the type of the argument for the future fut: the shapes of
\* the halos are zeros if the array has none
argType(fut) ==
  LET rank == fut.rank
      lhShape == [i \in 1..rank |-> IF fut.lh_shape.null THEN 0 ELSE fut.lh_shape.v[i]]
      ownShape == [i \in 1..rank |-> fut.local_shape[i]]
      rhShape == [i \in 1..rank |-> IF fut.rh_shape.null THEN 0 ELSE fut.rh_shape.v[i]]
  IN getTTypeOf(fut.dtype, SubSeq(fut.shape, 1, rank), lhShape, ownShape, rhShape,
                fut.device, fut.team, fut.local_offsets)

getDependent_noarg(s, guid) ==
  IF ~MapHas(s.ivm, guid)
    THEN IF ~RegistryHas(s.reg, guid)
           THEN [s EXCEPT !.ret = Threw("UnknownGuid")]
           ELSE LET idx == Len(s.args)
                    fut == s.reg[guid]
                    typ == getTType(fut)
                    val == [src |-> "arg", n |-> idx, rank |-> typ.rank,
                            dist |-> typ.dist]
                IN [s EXCEPT !.args = Append(@, [guid |-> guid, fut |-> fut]),
                             !.ivm = MapSet(@, guid, val),
                             !.ret = Ok(val)]
    ELSE [s EXCEPT !.ret = Ok(MapGet(s.ivm, guid))]

\* getDependent that does not look into _ivm
getDependent_noivm(s, guid) ==
  IF ~RegistryHas(s.reg, guid)
    THEN [s EXCEPT !.ret = Threw("UnknownGuid")]
    ELSE LET idx == Len(s.args)
             fut == s.reg[guid]
             typ == getTType(fut)
             val == [src |-> "arg", n |-> idx, rank |-> typ.rank, dist |-> typ.dist]
         IN [s EXCEPT !.func.args = InsertAt(@, idx, typ),
                      !.args = Append(@, [guid |-> guid, fut |-> fut]),
                      !.ivm = MapSet(@, guid, val),
                      !.ret = Ok(val)]

\* getDependent that declares the argument before it asks the Registry
getDependent_argfirst(s, guid) ==
  IF ~MapHas(s.ivm, guid)
    THEN LET idx == Len(s.args)
         IN IF ~RegistryHas(s.reg, guid)
              THEN [s EXCEPT !.func.args = InsertAt(@, idx, [rank |-> 0, dist |-> FALSE]),
                             !.ret = Threw("UnknownGuid")]
              ELSE LET fut == s.reg[guid]
                       typ == getTType(fut)
                       val == [src |-> "arg", n |-> idx, rank |-> typ.rank,
                               dist |-> typ.dist]
                   IN [s EXCEPT !.func.args = InsertAt(@, idx, typ),
                                !.args = Append(@, [guid |-> guid, fut |-> fut]),
                                !.ivm = MapSet(@, guid, val),
                                !.ret = Ok(val)]
    ELSE [s EXCEPT !.ret = Ok(MapGet(s.ivm, guid))]

getDependent(s, guid) ==
  IF ~MapHas(s.ivm, guid)
    THEN \* Not found -> this must be an input argument to the jit function
         IF ~RegistryHas(s.reg, guid)
           THEN [s EXCEPT !.ret = Threw("UnknownGuid")]
           ELSE LET idx == Len(s.args)
                    fut == s.reg[guid]
                    typ == getTType(fut)
                    val == [src |-> "arg", n |-> idx, rank |-> typ.rank,
                            dist |-> typ.dist]
                IN [s EXCEPT !.func.args = InsertAt(@, idx, typ),
                             !.args = Append(@, [guid |-> guid, fut |-> fut]),
                             !.ivm = MapSet(@, guid, val),
                             !.ret = Ok(val)]
    ELSE [s EXCEPT !.ret = Ok(MapGet(s.ivm, guid))]

\* addVal that puts the value in front of the ones _ivm holds
addVal_front(s, guid, val, cb) ==
  [s EXCEPT !.ivm = <<[guid |-> guid, val |-> val]>> \o MapErase(@, guid),
            !.icm = FnSet(@, guid, cb),
            !.ret = Ok(NoVal)]

addVal(s, guid, val, cb) ==
  IF MapHas(s.ivm, guid) /\ ~s.ndebug
    THEN [s EXCEPT !.ret = Threw("InvariantViolation")]
    ELSE [s EXCEPT !.ivm = MapSet(@, guid, val),
                   !.icm = FnSet(@, guid, cb),
                   !.ret = Ok(NoVal)]

\* addReady that keeps only the latest callback of a guid
addReady_replace(s, guid, cb) ==
  [s EXCEPT !.icr = FnSet(@, guid, <<cb>>), !.ret = Ok(NoVal)]

addReady(s, guid, cb) ==
  [s EXCEPT !.icr = FnSet(@, guid,
                          IF guid \in DOMAIN s.icr THEN Append(s.icr[guid], cb)
                                                   ELSE <<cb>>),
            !.ret = Ok(NoVal)]

\* drop that erases at the iterator find returns: for a guid that _ivm does not
\* hold this takes the last entry of _ivm
drop_erase_end(s, guid) ==
  [s EXCEPT !.ivm = IF MapHas(@, guid) THEN MapErase(@, guid)
                    ELSE SubSeq(@, 1, Len(@) - 1),
            !.icm = FnErase(@, guid),
            !.icr = FnErase(@, guid),
            !.reg = RegistryDel(@, guid),
            !.ret = Ok(NoVal)]

\* drop as it was before the Registry was involved: only what is in _ivm
drop_ifpresent(s, guid) ==
  IF MapHas(s.ivm, guid)
    THEN [s EXCEPT !.ivm = MapErase(@, guid),
                   !.icm = FnErase(@, guid),
                   !.icr = FnErase(@, guid),
                   !.reg = RegistryDel(@, guid),
                   !.ret = Ok(NoVal)]
    ELSE [s EXCEPT !.ret = Ok(NoVal)]

\* drop without the Registry::del
drop_keepreg(s, guid) ==
  [s EXCEPT !.ivm = MapErase(@, guid),
            !.icm = FnErase(@, guid),
            !.icr = FnErase(@, guid),
            !.ret = Ok(NoVal)]

\* drop that also takes the guid out of _args
drop_args(s, guid) ==
  [s EXCEPT !.ivm = MapErase(@, guid),
            !.icm = FnErase(@, guid),
            !.icr = FnErase(@, guid),
            !.args = SelectSeq(@, LAMBDA a : a.guid # guid),
            !.reg = RegistryDel(@, guid),
            !.ret = Ok(NoVal)]

drop(s, guid) ==
  [s EXCEPT !.ivm = MapErase(@, guid),
            !.icm = FnErase(@, guid),
            !.icr = FnErase(@, guid),
            !.reg = RegistryDel(@, guid),
            !.ret = Ok(NoVal)]

\* what DDPTensorImpl::add_to_args appends for one input: the words of its
\* memref descriptor, each written here as the guid it belongs to
add_to_args(res, a) == res \o [i \in 1..memref_sz(a.fut.rank) |-> a.guid]

RECURSIVE store_inputs_loop(_, _, _)
store_inputs_loop(s, res, i) ==
  IF i > Len(s.args)
    THEN [s |-> s, res |-> res]
    ELSE LET a == s.args[i]
         IN store_inputs_loop([s EXCEPT !.ivm = MapErase(@, a.guid),
                                        !.icm = FnErase(@, a.guid)],
                              add_to_args(res, a), i + 1)

\* store_inputs without the erase of the inputs from _ivm
store_inputs_keep(s) ==
  [s |-> s, res |-> store_inputs_loop(s, <<>>, 1).res]

\* store_inputs that also empties _args
store_inputs_clear(s) ==
  LET r == store_inputs_loop(s, <<>>, 1)
  IN [s |-> [r.s EXCEPT !.args = <<>>], res |-> r.res]

\* store_inputs that puts the words of each input in front of the earlier ones
store_inputs_rev(s) ==
  LET r == store_inputs_loop(s, <<>>, 1)
  IN [s |-> r.s, res |-> [i \in 1..Len(r.res) |-> r.res[Len(r.res) + 1 - i]]]

\* returns [s |-> the DepManager afterwards, res |-> the words]
store_inputs(s) == store_inputs_loop(s, <<>>, 1)

RECURSIVE handleResult_loop(_, _, _)
handleResult_loop(s, sz, idx) ==
  IF idx >= Len(s.ivm)
    THEN [s |-> s, sz |-> sz]
    ELSE LET v == s.ivm[idx + 1]
             value == v.val
             isDist == value.dist
             rank == value.rank
             typ == [rank |-> rank, dist |-> isDist]
         IN handleResult_loop(
              [s EXCEPT !.func.retvals = Append(@, value),
                        !.func.results = InsertAt(@, idx, typ),
                        !.irm = FnSet(@, v.guid, [rank |-> rank, dist |-> isDist]),
                        \* clear reference to MLIR value
                        !.ivm[idx + 1].val = NullVal],
              sz + ptensor_sz(rank, isDist), idx + 1)

\* handleResult that returns the size without the factor 2
handleResult_sz(s) ==
  LET r == handleResult_loop(s, 0, 0)
  IN [s |-> [r.s EXCEPT !.func.returned = TRUE], sz |-> r.sz]

\* returns [s |-> the DepManager afterwards, sz |-> the size returned]
handleResult(s) ==
  LET r == handleResult_loop(s, 0, 0)
  IN [s |-> [r.s EXCEPT !.func.returned = TRUE], sz |-> 2 * r.sz]

\* a null pointer passed to a delivery callback in place of a memref
nullptr == 0 - 1

\* deliver's getMR: the words one memref descriptor of that rank takes
getMR(rank) == memref_sz(rank)

deliver_entry_nooffs(guid, cb, tmp, pos) ==
  IF tmp.rank > 0 /\ tmp.dist
    THEN [guid |-> guid, cb |-> cb, rank |-> tmp.rank, at |-> pos,
          words |-> 3 * getMR(tmp.rank), halos |-> TRUE,
          lhsHalo |-> pos, lData |-> pos + getMR(tmp.rank),
          rhsHalo |-> pos + 2 * getMR(tmp.rank), lo |-> nullptr]
    ELSE [guid |-> guid, cb |-> cb, rank |-> tmp.rank, at |-> pos,
          words |-> getMR(tmp.rank), halos |-> FALSE,
          lhsHalo |-> nullptr, lData |-> pos, rhsHalo |-> nullptr,
          lo |-> nullptr]

\* deliver's loop body that takes the local data as the first memref
deliver_entry_datafirst(guid, cb, tmp, pos) ==
  IF tmp.rank > 0 /\ tmp.dist
    THEN [guid |-> guid, cb |-> cb, rank |-> tmp.rank, at |-> pos,
          words |-> 3 * getMR(tmp.rank) + memref_sz(1), halos |-> TRUE,
          lhsHalo |-> pos + getMR(tmp.rank), lData |-> pos,
          rhsHalo |-> pos + 2 * getMR(tmp.rank),
          lo |-> pos + 3 * getMR(tmp.rank)]
    ELSE [guid |-> guid, cb |-> cb, rank |-> tmp.rank, at |-> pos,
          words |-> getMR(tmp.rank), halos |-> FALSE,
          lhsHalo |-> nullptr, lData |-> pos, rhsHalo |-> nullptr,
          lo |-> nullptr]

\* one result of deliver: the callback invoked, where its words start, how many
\* words it takes, whether halos and local offsets are passed, and the place in
\* the output buffer of each memref handed to the callback (nullptr: none)
deliver_entry(guid, cb, tmp, pos) ==
  IF tmp.rank > 0 /\ tmp.dist
    THEN [guid |-> guid, cb |-> cb, rank |-> tmp.rank, at |-> pos,
          words |-> 3 * getMR(tmp.rank) + memref_sz(1), halos |-> TRUE,
          lhsHalo |-> pos, lData |-> pos + getMR(tmp.rank),
          rhsHalo |-> pos + 2 * getMR(tmp.rank),
          \* lastly extract local offsets
          lo |-> pos + 3 * getMR(tmp.rank)]
    ELSE \* 0d tensor or non-dist
         [guid |-> guid, cb |-> cb, rank |-> tmp.rank, at |-> pos,
          words |-> getMR(tmp.rank), halos |-> FALSE,
          lhsHalo |-> nullptr, lData |-> pos, rhsHalo |-> nullptr,
          lo |-> nullptr]

\* _irm[guid]: a missing key is inserted with a value-initialised pair
IrmAt(m, guid) == IF guid \in DOMAIN m THEN m[guid] ELSE [rank |-> 0, dist |-> FALSE]

RECURSIVE deliver_loop(_, _, _, _)
deliver_loop(s, i, pos, log) ==
  IF i > Len(s.ivm)
    THEN [s |-> s, pos |-> pos, log |-> log, ok |-> TRUE]
    ELSE LET guid == s.ivm[i].guid
         IN IF guid \in DOMAIN s.icm
              THEN LET e == deliver_entry(guid, s.icm[guid], IrmAt(s.irm, guid), pos)
                   IN deliver_loop([s EXCEPT !.irm = FnSet(@, guid, IrmAt(s.irm, guid))],
                                   i + 1, pos + e.words, Append(log, e))
              ELSE IF s.ndebug
                     THEN deliver_loop(s, i + 1, pos, log)
                     ELSE \* assert(false)
                          [s |-> s, pos |-> pos, log |-> log, ok |-> FALSE]

\* the guids of a guid-keyed map in the order the map is walked
RECURSIVE KeyOrder(_)
KeyOrder(S) ==
  IF S = {} THEN <<>>
  ELSE LET k == CHOOSE x \in S : \A y \in S : x <= y
       IN <<k>> \o KeyOrder(S \ {k})

RECURSIVE ready_loop(_, _, _)
ready_loop(m, ks, log) ==
  IF ks = <<>> THEN log
  ELSE ready_loop(m, Tail(ks),
                  log \o [j \in DOMAIN m[Head(ks)] |->
                            [guid |-> Head(ks), cb |-> m[Head(ks)][j]]])

\* the ready callbacks of _icr in the order they are fired, each with the number
\* of delivery callbacks that ran before it
fire_ready(m, ndone) ==
  LET fired == ready_loop(m, KeyOrder(DOMAIN m), <<>>)
  IN [i \in DOMAIN fired |->
        [guid |-> fired[i].guid, cb |-> fired[i].cb, after |-> ndone]]

deliver_reversed(s, sz) ==
  LET r == deliver_loop(s, 1, 0, <<>>)
      n == Len(r.log)
  IN [s |-> r.s, pos |-> r.pos, ok |-> r.ok,
      log |-> [i \in 1..n |-> r.log[n + 1 - i]],
      ready |-> IF r.ok THEN fire_ready(s.icr, Len(r.log)) ELSE <<>>]

\* returns the delivery callbacks invoked (log) and the ready callbacks invoked
\* (ready), in order, and the read position reached
deliver(s, sz) ==
  LET r == deliver_loop(s, 1, 0, <<>>)
  IN [s |-> r.s, pos |-> r.pos, log |-> r.log, ok |-> r.ok,
      ready |-> IF r.ok THEN fire_ready(s.icr, Len(r.log)) ELSE <<>>]

\* ------------------------------------------------------- JIT
\* the values of DDPT_USE_CACHE the model draws from
CacheEnvs == {"unset", "1", "0", "on", "yes"}

\* _useCache that is off for "0" only
parseUseCache_nonzero(env) == env # "0"

\* JIT::JIT: _useCache from DDPT_USE_CACHE, "1" if it is not set
parseUseCache(env) ==
  LET c == IF env = "unset" THEN "1" ELSE env
  IN c \in {"1", "y", "Y", "on", "ON"}

\* ------------------------------------------------- the JIT's configuration
\* an environment variable: not set (getenv gives a null pointer) or set to val,
\* a string being the sequence of its pieces
Unset == [set |-> FALSE, val |-> <<>>]

SetTo(val) == [set |-> TRUE, val |-> val]

\* one element of a pass pipeline string: the pass, the operation it is
\* anchored on and its options
Pass(name) == [anchor |-> "", pass |-> name, opts |-> ""]

OnFunc(name) == [anchor |-> "func.func", pass |-> name, opts |-> ""]

OnOp(op, name) == [anchor |-> op, pass |-> name, opts |-> ""]

WithOpts(p, opts) == [p EXCEPT !.opts = opts]

cpu_pipeline ==
  << Pass("ptensor-dist"),
     OnFunc("dist-coalesce"),
     OnFunc("dist-infer-elementwise-cores"),
     Pass("convert-dist-to-standard"),
     Pass("canonicalize"),
     Pass("overlap-comm-and-compute"),
     Pass("add-comm-cache-keys"),
     Pass("lower-distruntime-to-idtr"),
     Pass("convert-ptensor-to-linalg"),
     Pass("canonicalize"),
     OnFunc("tosa-to-linalg"),
     OnFunc("tosa-to-tensor"),
     Pass("canonicalize"),
     Pass("linalg-fuse-elementwise-ops"),
     Pass("arith-expand"),
     Pass("memref-expand"),
     Pass("arith-bufferize"),
     OnFunc("empty-tensor-to-alloc-tensor"),
     OnFunc("scf-bufferize"),
     OnFunc("tensor-bufferize"),
     OnFunc("bufferization-bufferize"),
     OnFunc("linalg-bufferize"),
     OnFunc("linalg-detensorize"),
     OnFunc("tensor-bufferize"),
     OnFunc("finalizing-bufferize"),
     OnFunc("buffer-deallocation"),
     Pass("imex-remove-temporaries"),
     OnFunc("convert-linalg-to-parallel-loops"),
     OnFunc("scf-parallel-loop-fusion"),
     Pass("canonicalize"),
     Pass("fold-memref-alias-ops"),
     Pass("expand-strided-metadata"),
     Pass("convert-math-to-funcs"),
     Pass("lower-affine"),
     Pass("convert-scf-to-cf"),
     Pass("finalize-memref-to-llvm"),
     Pass("convert-math-to-llvm"),
     Pass("convert-math-to-libm"),
     Pass("convert-func-to-llvm"),
     Pass("reconcile-unrealized-casts") >>

\* the gpu pipeline with the binding to the gpu runtime after the lowering of
\* the functions to LLVM
gpu_pipeline_late ==
  << Pass("ptensor-dist"),
     OnFunc("convert-linalg-to-parallel-loops"),
     Pass("gpu-kernel-outlining"),
     Pass("imex-convert-gpu-to-spirv"),
     Pass("serialize-spirv"),
     Pass("convert-func-to-llvm"),
     Pass("convert-gpu-to-gpux"),
     Pass("convert-gpux-to-llvm"),
     Pass("reconcile-unrealized-casts") >>

gpu_pipeline ==
  << Pass("ptensor-dist"),
     OnFunc("dist-coalesce"),
     OnFunc("dist-infer-elementwise-cores"),
     Pass("convert-dist-to-standard"),
     Pass("canonicalize"),
     Pass("overlap-comm-and-compute"),
     Pass("add-comm-cache-keys"),
     Pass("lower-distruntime-to-idtr"),
     Pass("convert-ptensor-to-linalg"),
     Pass("canonicalize"),
     OnFunc("tosa-make-broadcastable"),
     OnFunc("tosa-to-linalg"),
     OnFunc("tosa-to-tensor"),
     Pass("canonicalize"),
     Pass("linalg-fuse-elementwise-ops"),
     Pass("arith-expand"),
     Pass("memref-expand"),
     Pass("arith-bufferize"),
     Pass("func-bufferize"),
     OnFunc("empty-tensor-to-alloc-tensor"),
     OnFunc("scf-bufferize"),
     OnFunc("tensor-bufferize"),
     OnFunc("bufferization-bufferize"),
     OnFunc("linalg-bufferize"),
     OnFunc("linalg-detensorize"),
     OnFunc("tensor-bufferize"),
     OnFunc("finalizing-bufferize"),
     Pass("imex-remove-temporaries"),
     OnFunc("convert-linalg-to-parallel-loops"),
     OnFunc("scf-parallel-loop-fusion"),
     OnFunc("imex-add-outer-parallel-loop"),
     OnFunc("gpu-map-parallel-loops"),
     OnFunc("convert-parallel-loops-to-gpu"),
     WithOpts(OnFunc("insert-gpu-allocs"), "client-api=opencl"),
     Pass("canonicalize"),
     Pass("normalize-memrefs"),
     OnFunc("lower-affine"),
     Pass("gpu-kernel-outlining"),
     Pass("canonicalize"),
     Pass("cse"),
     WithOpts(Pass("set-spirv-capabilities"), "client-api=opencl"),
     WithOpts(OnOp("gpu.module", "set-spirv-abi-attrs"), "client-api=opencl"),
     Pass("canonicalize"),
     Pass("fold-memref-alias-ops"),
     Pass("imex-convert-gpu-to-spirv"),
     OnOp("spirv.module", "spirv-lower-abi-attrs"),
     OnOp("spirv.module", "spirv-update-vce"),
     Pass("serialize-spirv"),
     Pass("expand-strided-metadata"),
     Pass("lower-affine"),
     Pass("convert-gpu-to-gpux"),
     Pass("convert-func-to-llvm"),
     Pass("convert-math-to-llvm"),
     Pass("convert-gpux-to-llvm"),
     Pass("finalize-memref-to-llvm"),
     Pass("reconcile-unrealized-casts") >>

\* the gpu pipeline chosen only for a DDPT_USE_GPU that is set and not empty
pass_pipeline_nonempty(env) ==
  IF env.DDPT_PASSES.set THEN env.DDPT_PASSES.val
  ELSE IF env.DDPT_USE_GPU.set /\ env.DDPT_USE_GPU.val # <<>> THEN gpu_pipeline
  ELSE cpu_pipeline

\* pass_pipeline: DDPT_PASSES if it is set, else the gpu pipeline if
\* DDPT_USE_GPU is set, else the cpu pipeline
pass_pipeline(env) ==
  IF env.DDPT_PASSES.set THEN env.DDPT_PASSES.val
  ELSE IF env.DDPT_USE_GPU.set THEN gpu_pipeline
  ELSE cpu_pipeline

\* the characters of the strings the model gives to std::stoi
Digits == {"0", "1", "2", "3", "4", "5", "6", "7", "8", "9"}

DigitVal(c) ==
  CASE c = "0" -> 0 [] c = "1" -> 1 [] c = "2" -> 2 [] c = "3" -> 3
    [] c = "4" -> 4 [] c = "5" -> 5 [] c = "6" -> 6 [] c = "7" -> 7
    [] c = "8" -> 8 [] c = "9" -> 9

\* the largest int
INT_MAX == 2147483647

\* std::stoi reading the digits of str from position i on: [n |-> digits read,
\* val |-> their value, big |-> the value is beyond an int]
RECURSIVE stoi_digits(_, _, _)
stoi_digits(str, i, acc) ==
  IF i > Len(str) \/ str[i] \notin Digits
    THEN acc
    ELSE LET d == DigitVal(str[i])
             big == \/ acc.big
                    \/ acc.val > (INT_MAX - d) \div 10
         IN stoi_digits(str, i + 1,
                        [n |-> acc.n + 1,
                         val |-> IF big THEN acc.val ELSE acc.val * 10 + d,
                         big |-> big])

RECURSIVE stoi_space(_, _)
stoi_space(str, i) ==
  IF i <= Len(str) /\ str[i] = " " THEN stoi_space(str, i + 1) ELSE i

\* std::stoi: white space is skipped, then an optional sign and the longest
\* run of digits are read and what follows them is ignored; no digit at all
\* throws invalid_argument, a value beyond an int throws out_of_range
stoi(str) ==
  LET i == stoi_space(str, 1)
      neg == i <= Len(str) /\ str[i] = "-"
      j == IF i <= Len(str) /\ str[i] \in {"-", "+"} THEN i + 1 ELSE i
      r == stoi_digits(str, j, [n |-> 0, val |-> 0, big |-> FALSE])
  IN IF r.n = 0 THEN [ok |-> FALSE, val |-> 0, err |-> "invalid_argument"]
     ELSE IF r.big THEN [ok |-> FALSE, val |-> 0, err |-> "out_of_range"]
     ELSE [ok |-> TRUE, val |-> IF neg THEN 0 - r.val ELSE r.val, err |-> "none"]

\* the JIT whose constructor threw err
NoJIT(err) ==
  [outcome |-> err, pipeline |-> <<>>, verbose |-> 0, useCache |-> FALSE,
   jit_opt_level |-> 0, sharedLibPaths |-> <<>>]

\* a path made of a directory and what is appended to it
Path(root, rest) == root \o <<rest>>

\* JIT::JIT, sharedLibPaths: the two runner libraries of MLIRROOT, the library
\* of the distributed runtime and, if DDPT_USE_GPU is set, the gpu runtime
sharedLibPaths(env) ==
  LET mlirRoot == IF env.MLIRROOT.set THEN env.MLIRROOT.val ELSE <<"CMAKE_MLIR_ROOT">>
      crunnerlib == Path(mlirRoot, "/lib/libmlir_c_runner_utils.so")
      runnerlib == Path(mlirRoot, "/lib/libmlir_runner_utils.so")
      idtrlib == IF env.DDPT_IDTR_SO.set THEN env.DDPT_IDTR_SO.val
                                         ELSE Path(<<>>, "libidtr.so")
  IN IF env.DDPT_USE_GPU.set
       THEN LET imexRoot == IF env.IMEXROOT.set THEN env.IMEXROOT.val
                                                ELSE <<"CMAKE_IMEX_ROOT">>
                gpulib == IF env.DDPT_GPUX_SO.set
                            THEN env.DDPT_GPUX_SO.val
                            ELSE Path(imexRoot, "/lib/liblevel-zero-runtime.so")
            IN <<crunnerlib, runnerlib, idtrlib, gpulib>>
       ELSE <<crunnerlib, runnerlib, idtrlib>>

\* JIT::JIT constructs the JIT from the environment. parses: parsePassPipeline
\* takes the pipeline; host: a target machine for the host can be built.
JIT_JIT(env, parses, host) ==
  LET v == IF env.DDPT_VERBOSE.set THEN stoi(env.DDPT_VERBOSE.val)
                                   ELSE [ok |-> TRUE, val |-> 0, err |-> "none"]
      ol == IF env.DDPT_OPT_LEVEL.set THEN stoi(env.DDPT_OPT_LEVEL.val)
                                      ELSE [ok |-> TRUE, val |-> 3, err |-> "none"]
  IN IF ~parses THEN NoJIT("failed to parse pass pipeline")
     ELSE IF ~v.ok THEN NoJIT(v.err)
     ELSE IF ~ol.ok THEN NoJIT(ol.err)
     ELSE IF ol.val < 0 \/ ol.val > 3 THEN NoJIT("Bad optimization level")
     ELSE IF ~host THEN NoJIT("Failed to create a TargetMachine for the host")
     ELSE [outcome |-> "ok", pipeline |-> pass_pipeline(env), verbose |-> v.val,
           useCache |-> parseUseCache(env.DDPT_USE_CACHE),
           jit_opt_level |-> ol.val, sharedLibPaths |-> sharedLibPaths(env)]

\* the JIT and the environment its constructor ran in
Constructed(env, parses, host) == [env |-> env, obj |-> JIT_JIT(env, parses, host)]

\* no variable of the JIT is set
NoEnv ==
  [DDPT_PASSES |-> Unset, DDPT_USE_GPU |-> Unset, DDPT_GPUX_SO |-> Unset,
   IMEXROOT |-> Unset, MLIRROOT |-> Unset, DDPT_IDTR_SO |-> Unset,
   DDPT_VERBOSE |-> Unset, DDPT_USE_CACHE |-> "unset", DDPT_OPT_LEVEL |-> Unset]

\* module->print: the function's signature, its operations and its return
printModule(f) ==
  [args |-> f.args, body |-> f.body, results |-> f.results,
   retvals |-> IF f.returned THEN f.retvals ELSE <<>>]

\* raw_sha1_ostream::sha1: the digest of the text. The model's texts are few:
\* no two of them have the same digest.
sha1(text) == <<"sha1", text>>

NoEngine == [id |-> 0, valid |-> FALSE]

\* JIT::createExecutionEngine on j = [useCache, engineCache, nEngines]:
\* [engine, piped, built, outcome, n]. The pass manager lowers the module
\* (lowers) or the call throws; ExecutionEngine::create gives an engine
\* (creates) or an error, on which assert aborts; with assert compiled away
\* (ndebug) reading the engine of the error is undefined: the process dies (ub)
\* or a pointer that is no engine is returned.
createExecutionEngine(j, lowers, creates, ndebug, ub) ==
  IF ~lowers
    THEN [engine |-> NoEngine, piped |-> TRUE, built |-> FALSE,
          outcome |-> "PassFailure", n |-> j.nEngines]
  ELSE IF creates
    THEN [engine |-> [id |-> j.nEngines + 1, valid |-> TRUE], piped |-> TRUE,
          built |-> TRUE, outcome |-> "ok", n |-> j.nEngines + 1]
  ELSE IF ~ndebug \/ ub
    THEN [engine |-> NoEngine, piped |-> TRUE, built |-> FALSE,
          outcome |-> "crashed", n |-> j.nEngines]
    ELSE [engine |-> [id |-> j.nEngines + 1, valid |-> FALSE], piped |-> TRUE,
          built |-> FALSE, outcome |-> "ok", n |-> j.nEngines + 1]

\* invoke without the throw on a failed lookupPacked
invoke_nothrow(e, found) ==
  IF ~e.valid THEN "crashed" ELSE "ok"

\* lookupPacked and the call of the function on the engine e
invoke(e, found) ==
  IF ~e.valid THEN "crashed"
  ELSE IF ~found THEN "InvokeFailure"
  ELSE "ok"

\* pack function arguments with the result pointer pushed unconditionally
pack_args_always(inpv, oszv) ==
  [args |-> <<[slot |-> "out", i |-> 0]>> \o
              [k \in 1..Len(inpv) |-> [slot |-> "inp", i |-> k]],
   out |-> [k \in 1..oszv |-> 0]]

\* JIT::run, pack function arguments: the vector handed to the function holds
\* the address of the pointer to the output buffer if osz is not 0, then the
\* address of each element of inp; out is the buffer of osz words
pack_args(inpv, oszv) ==
  [args |-> (IF oszv # 0 THEN <<[slot |-> "out", i |-> 0]>> ELSE <<>>) \o
              [k \in 1..Len(inpv) |-> [slot |-> "inp", i |-> k]],
   out |-> [k \in 1..oszv |-> 0]]

\* JIT::run as if _useCache were off
JIT_run_nocache(j, text, lowers, creates, found, ndebug, ub) ==
  LET c == createExecutionEngine(j, lowers, creates, ndebug, ub)
  IN [j |-> [j EXCEPT !.nEngines = c.n],
      run |-> [text |-> text, engine |-> c.engine, piped |-> c.piped,
               built |-> c.built,
               outcome |-> IF c.outcome = "ok" THEN invoke(c.engine, found)
                                               ELSE c.outcome]]

\* JIT::run with a cache that holds the latest engine only
JIT_run_evict(j, text, lowers, creates, found, ndebug, ub) ==
  LET cksm == sha1(text)
  IN IF cksm \notin DOMAIN j.engineCache
       THEN LET c == createExecutionEngine(j, lowers, creates, ndebug, ub)
            IN [j |-> [j EXCEPT !.nEngines = c.n,
                                !.engineCache =
                                   IF c.outcome = "ok"
                                     THEN FnSet(EmptyFn, cksm, c.engine)
                                     ELSE @],
                run |-> [text |-> text, engine |-> c.engine,
                         piped |-> c.piped, built |-> c.built,
                         outcome |-> IF c.outcome = "ok"
                                       THEN invoke(c.engine, found)
                                       ELSE c.outcome]]
       ELSE LET e == j.engineCache[cksm]
            IN [j |-> j,
                run |-> [text |-> text, engine |-> e, piped |-> FALSE,
                         built |-> FALSE, outcome |-> invoke(e, found)]]

\* JIT::run: [j |-> the JIT afterwards, run |-> what the run did]
JIT_run(j, text, lowers, creates, found, ndebug, ub) ==
  IF j.useCache
    THEN LET cksm == sha1(text)
         IN IF cksm \notin DOMAIN j.engineCache
              THEN \* the engine is created before the cache gets its entry
                   LET c == createExecutionEngine(j, lowers, creates, ndebug, ub)
                   IN [j |-> [j EXCEPT !.nEngines = c.n,
                                       !.engineCache =
                                          IF c.outcome = "ok"
                                            THEN FnSet(@, cksm, c.engine)
                                            ELSE @],
                       run |-> [text |-> text, engine |-> c.engine,
                                piped |-> c.piped, built |-> c.built,
                                outcome |-> IF c.outcome = "ok"
                                              THEN invoke(c.engine, found)
                                              ELSE c.outcome]]
              ELSE LET e == j.engineCache[cksm]
                   IN [j |-> j,
                       run |-> [text |-> text, engine |-> e, piped |-> FALSE,
                                built |-> FALSE, outcome |-> invoke(e, found)]]
    ELSE LET c == createExecutionEngine(j, lowers, creates, ndebug, ub)
         IN [j |-> [j EXCEPT !.nEngines = c.n],
             run |-> [text |-> text, engine |-> c.engine, piped |-> c.piped,
                      built |-> c.built,
                      outcome |-> IF c.outcome = "ok" THEN invoke(c.engine, found)
                                                      ELSE c.outcome]]

\* ------------------------------------------------- the record
\* ndebug: whether the build compiles assert() away
DM(ndebug) ==
  [ivm |-> ivm, args |-> args, icm |-> icm, icr |-> icr, irm |-> irm,
   func |-> func, reg |-> registry, ret |-> ret, ndebug |-> ndebug]

Commit(s) ==
  /\ ivm' = s.ivm
  /\ args' = s.args
  /\ icm' = s.icm
  /\ icr' = s.icr
  /\ irm' = s.irm
  /\ func' = s.func
  /\ registry' = s.reg
  /\ ret' = s.ret

\* ----------------------------------------------------- actions
NoNode == [thread |-> 0, seq |-> 0, kind |-> "none", guid |-> 0, a |-> 0,
           rank |-> 0, team |-> 0]

\* no node has been enqueued
SchedInit ==
  /\ queue = <<>>
  /\ pushed = <<>>
  /\ sent = [t \in Threads |-> 0]
  /\ dropreq = {}
  /\ processed = <<>>
  /\ batch = <<>>
  /\ eager = NoNode
  /\ fulfilled = <<>>

\* JIT::JIT with DDPT_USE_CACHE = env
JITInit(env) ==
  /\ jit = Constructed([NoEnv EXCEPT !.DDPT_USE_CACHE = env], TRUE, TRUE)
  /\ useCache = jit.obj.useCache
  /\ engineCache = EmptyFn
  /\ nEngines = 0
  /\ ran = <<>>

Init ==
  /\ registry = EmptyFn
  /\ nextGuid = 1
  /\ nodes = EmptyFn
  /\ ivm = <<>>
  /\ args = <<>>
  /\ icm = EmptyFn
  /\ icr = EmptyFn
  /\ irm = EmptyFn
  /\ func = EmptyFunc
  /\ ret = Ok(NoVal)
  /\ calls = <<>>
  /\ dropped = {}
  /\ phase = "emit"
  /\ nsteps = 0
  /\ inp = <<>>
  /\ osz = 0
  /\ outpos = 0
  /\ delivered = <<>>
  /\ readied = <<>>
  /\ JITInit("unset")
  /\ SchedInit

\* the id no array has
NOGUID == 0

\* put that hands out the smallest id the Registry does not hold
Put_reuse(rank, team, deferred) ==
  LET g == CHOOSE x \in 1..nextGuid :
             x \notin DOMAIN registry /\
             \A y \in 1..nextGuid : y \notin DOMAIN registry => x <= y
  IN /\ nsteps < MaxSteps
     /\ nsteps' = nsteps + 1
     /\ registry' = FnSet(registry, g, [guid |-> g, rank |-> rank, team |-> team])
     /\ nodes' = IF deferred
                   THEN FnSet(nodes, g,
                              [rank |-> rank, team |-> team, emitted |-> FALSE])
                   ELSE nodes
     /\ nextGuid' = IF g = nextGuid THEN nextGuid + 1 ELSE nextGuid
     /\ UNCHANGED <<dmvars, postvars, jitvars, calls, dropped, phase>>

\* a front-end registers the future of an array of the given rank and team under
\* a fresh guid (defer_tensor): the array of a Deferred node that is yet to
\* generate its MLIR, or (UnDeferred) an array that exists already
Put(rank, team, deferred) ==
  /\ nsteps < MaxSteps
  /\ nsteps' = nsteps + 1
  /\ registry' = FnSet(registry, nextGuid,
                       [guid |-> nextGuid, rank |-> rank, team |-> team])
  /\ nodes' = IF deferred
                THEN FnSet(nodes, nextGuid,
                           [rank |-> rank, team |-> team, emitted |-> FALSE])
                ELSE nodes
  /\ nextGuid' = nextGuid + 1
  /\ UNCHANGED <<dmvars, postvars, jitvars, calls, dropped, phase>>

\* a call made while a node generates its MLIR; a throw ends the batch
Emitting(op, guid, s) ==
  /\ phase = "emit"
  /\ nsteps < MaxSteps
  /\ Commit(s)
  /\ calls' = Append(calls, [op |-> op, guid |-> guid])
  /\ nsteps' = nsteps + 1
  /\ phase' = IF s.ret.ok THEN "emit" ELSE "aborted"
  /\ UNCHANGED <<nextGuid, postvars, jitvars>>

\* the guids a node can name: a node is queued after the nodes producing the
\* arrays it names, so these have generated their MLIR or existed already
Known == {g \in 1..(nextGuid - 1) : g \in DOMAIN nodes => nodes[g].emitted}

\* the nodes that are yet to generate their MLIR
Pending == {g \in DOMAIN nodes : ~nodes[g].emitted}

GetDependent(guid) ==
  /\ Emitting("getDependent", guid, getDependent(DM(FALSE), guid))
  /\ UNCHANGED <<nodes, dropped>>

\* a node creates the operation producing its array and registers its value
AddVal(guid, ndebug) ==
  /\ nodes' = [nodes EXCEPT ![guid].emitted = TRUE]
  /\ UNCHANGED dropped
  /\ LET rank == nodes[guid].rank
         dist == nodes[guid].team # 0
         op == [rank |-> rank, dist |-> dist]
         val == [src |-> "op", n |-> Len(func.body), rank |-> rank, dist |-> dist]
         s == [DM(ndebug) EXCEPT !.func.body = Append(@, op)]
     IN Emitting("addVal", guid, addVal(s, guid, val, nsteps + 1))

AddReady(guid) ==
  /\ Emitting("addReady", guid, addReady(DM(FALSE), guid, nsteps + 1))
  /\ UNCHANGED <<nodes, dropped>>

Drop(guid) ==
  /\ Emitting("drop", guid, drop(DM(FALSE), guid))
  /\ dropped' = dropped \cup {guid}
  /\ UNCHANGED nodes

StoreInputs ==
  /\ phase = "emit"
  /\ LET r == store_inputs(DM(FALSE))
     IN /\ Commit([r.s EXCEPT !.ret = Ok(NoVal)])
        /\ inp' = r.res
  /\ phase' = "stored"
  /\ UNCHANGED <<nextGuid, nodes, calls, dropped, nsteps, osz, outpos, delivered,
                 readied, jitvars>>

HandleResult ==
  /\ phase = "stored"
  /\ LET r == handleResult(DM(FALSE))
     IN /\ Commit([r.s EXCEPT !.ret = Ok(NoVal)])
        /\ osz' = r.sz
  /\ phase' = "finalised"
  /\ UNCHANGED <<nextGuid, nodes, calls, dropped, nsteps, inp, outpos, delivered,
                 readied, jitvars>>

\* the worker has the module compiled and invoked (JitRun) and gets the
\* output buffer
Run ==
  /\ phase = "finalised"
  /\ phase' = "invoked"
  /\ UNCHANGED <<registry, nextGuid, nodes, dmvars, postvars, jitvars, calls, dropped,
                 nsteps>>

Deliver(ndebug) ==
  /\ phase = "invoked"
  /\ LET r == deliver(DM(ndebug), osz)
     IN /\ Commit([r.s EXCEPT !.ret = IF r.ok THEN Ok(NoVal)
                                              ELSE Threw("InvariantViolation")])
        /\ outpos' = r.pos
        /\ delivered' = r.log
        /\ readied' = r.ready
        /\ phase' = IF r.ok THEN "delivered" ELSE "aborted"
  /\ UNCHANGED <<nextGuid, nodes, calls, dropped, nsteps, inp, osz, jitvars>>

\* the worker opens a fresh module and function and keeps the DepManager
NewBatch_keep ==
  /\ phase \in {"delivered", "aborted"}
  /\ phase' = "emit"
  /\ func' = EmptyFunc
  /\ ret' = Ok(NoVal)
  /\ calls' = <<>>
  /\ inp' = <<>>
  /\ osz' = 0
  /\ outpos' = 0
  /\ delivered' = <<>>
  /\ readied' = <<>>
  /\ UNCHANGED <<registry, nextGuid, nodes, dropped, nsteps, jitvars, ivm, args,
                 icm, icr, irm>>

\* the worker opens a fresh module, function and DepManager
NewBatch ==
  /\ phase \in {"delivered", "aborted"}
  /\ phase' = "emit"
  /\ ivm' = <<>>
  /\ args' = <<>>
  /\ icm' = EmptyFn
  /\ icr' = EmptyFn
  /\ irm' = EmptyFn
  /\ func' = EmptyFunc
  /\ ret' = Ok(NoVal)
  /\ calls' = <<>>
  /\ inp' = <<>>
  /\ osz' = 0
  /\ outpos' = 0
  /\ delivered' = <<>>
  /\ readied' = <<>>
  /\ UNCHANGED <<registry, nextGuid, nodes, dropped, nsteps, jitvars>>

Next ==
  /\ \/ \E rank \in Ranks, team \in Teams, deferred \in BOOLEAN : Put(rank, team, deferred)
     \/ \E guid \in Known : GetDependent(guid)
     \/ \E guid \in Pending, ndebug \in BOOLEAN : AddVal(guid, ndebug)
     \/ \E guid \in Known : AddReady(guid)
     \/ \E guid \in Known : Drop(guid)
     \/ StoreInputs
     \/ HandleResult
     \/ Run
     \/ \E ndebug \in BOOLEAN : Deliver(ndebug)
     \/ NewBatch
  /\ UNCHANGED schedvars

Spec == Init /\ [][Next]_vars

\* ------------------------------------- the two orders of closing a function
\* handleResult called while the inputs are still in _ivm
HandleResultFirst ==
  /\ phase = "emit"
  /\ LET r == handleResult(DM(FALSE))
     IN /\ Commit([r.s EXCEPT !.ret = Ok(NoVal)])
        /\ osz' = r.sz
  /\ phase' = "returned"
  /\ UNCHANGED <<nextGuid, nodes, calls, dropped, nsteps, inp, outpos, delivered,
                 readied, jitvars>>

\* store_inputs called after handleResult
StoreInputsLate ==
  /\ phase = "returned"
  /\ LET r == store_inputs(DM(FALSE))
     IN /\ Commit([r.s EXCEPT !.ret = Ok(NoVal)])
        /\ inp' = r.res
  /\ phase' = "finalised"
  /\ UNCHANGED <<nextGuid, nodes, calls, dropped, nsteps, osz, outpos, delivered,
                 readied, jitvars>>

OrderNext ==
  \/ Next
  \/ HandleResultFirst /\ UNCHANGED schedvars
  \/ StoreInputsLate /\ UNCHANGED schedvars

OrderSpec == Init /\ [][OrderNext]_vars

\* ----------------------------------------------------- misuse of addVal
\* a node calls addVal for a guid that _ivm holds already (its own guid a second
\* time, or a guid that was imported as an argument)
AddValAgain(guid, ndebug) ==
  /\ MapHas(ivm, guid)
  /\ UNCHANGED <<nodes, dropped>>
  /\ LET typ == getTType(registry[guid])
         op == [rank |-> typ.rank, dist |-> typ.dist]
         val == [src |-> "op", n |-> Len(func.body), rank |-> typ.rank,
                 dist |-> typ.dist]
         s == [DM(ndebug) EXCEPT !.func.body = Append(@, op)]
     IN Emitting("addVal", guid, addVal(s, guid, val, nsteps + 1))

ApiNext ==
  \/ Next
  \/ /\ \E guid \in Known, ndebug \in BOOLEAN : AddValAgain(guid, ndebug)
     /\ UNCHANGED schedvars

ApiSpec == Init /\ [][ApiNext]_vars

\* --------------------------------- the queue and its worker
\* generate_mlir of a creation node: the operation creating the array, its
\* value registered under the node's guid with the callback that sets the
\* node's promise
Creator_generate_mlir(n, s) ==
  LET dist == n.team # 0
      val == [src |-> "op", n |-> Len(s.func.body), rank |-> n.rank, dist |-> dist]
      s1 == [s EXCEPT !.func.body = Append(@, [rank |-> n.rank, dist |-> dist])]
  IN [s |-> addVal(s1, n.guid, val, <<n.thread, n.seq>>), run |-> FALSE,
      set |-> FALSE]

\* DeferredService::generate_mlir that asks for run() for no operation
DeferredService_generate_mlir_norun(n, s) ==
  IF n.kind = "drop"
    THEN [s |-> drop(s, n.a), run |-> FALSE, set |-> TRUE]
    ELSE [s |-> s, run |-> FALSE, set |-> FALSE]

\* DeferredService::generate_mlir: [s |-> the DepManager afterwards, run |->
\* what it returns, set |-> whether it set the promise]
DeferredService_generate_mlir(n, s) ==
  IF n.kind = "drop"
    THEN [s |-> drop(s, n.a), run |-> FALSE, set |-> TRUE]
    ELSE [s |-> s, run |-> TRUE, set |-> FALSE]

DeferredReplicate_generate_mlir(n, s) == [s |-> s, run |-> TRUE, set |-> FALSE]

\* the virtual call Runable::generate_mlir
generate_mlir(n, s) ==
  CASE n.kind = "create" -> Creator_generate_mlir(n, s)
    [] n.kind \in {"drop", "run"} -> DeferredService_generate_mlir(n, s)
    [] n.kind = "replicate" -> DeferredReplicate_generate_mlir(n, s)

\* DeferredService::run that takes RUN for an unknown operation
DeferredService_run_unknown(n, reg) == FALSE

\* DeferredService::run: whether it sets the promise (or throws)
DeferredService_run(n, reg) == n.kind = "run"

\* DeferredReplicate::run
DeferredReplicate_run(n, reg) == RegistryHas(reg, n.a)

\* the virtual call Runable::run
run(n, reg) ==
  IF n.kind = "replicate" THEN DeferredReplicate_run(n, reg)
                          ELSE DeferredService_run(n, reg)

\* defer that loses the runnable
defer_lose(q, n) == q

\* defer that pushes the runnable twice
defer_twice(q, n) == Append(Append(q, n), n)

\* defer: the runnable goes to the end of the queue (push_runable)
defer(q, n) == Append(q, n)

\* the guids of the arrays a front-end holds a handle of
Held == (1..(nextGuid - 1)) \ dropreq

\* defer that enqueues the node of an array without registering its future
Defer_noput(t, n) ==
  /\ Len(pushed) < MaxNodes
  /\ queue' = defer(queue, n)
  /\ pushed' = Append(pushed, n)
  /\ sent' = [sent EXCEPT ![t] = @ + 1]
  /\ dropreq' = IF n.kind = "drop" THEN dropreq \cup {n.a} ELSE dropreq
  /\ nextGuid' = IF n.guid # 0 THEN nextGuid + 1 ELSE nextGuid
  /\ UNCHANGED <<registry, nodes, dmvars, calls, dropped, phase, nsteps, postvars,
                 jitvars, processed, batch, eager, fulfilled>>

\* the front-end thread t creates the node n and enqueues it; a node producing
\* an array gets its guid and its future is registered (defer_tensor)
Defer(t, n) ==
  /\ Len(pushed) < MaxNodes
  /\ queue' = defer(queue, n)
  /\ pushed' = Append(pushed, n)
  /\ sent' = [sent EXCEPT ![t] = @ + 1]
  /\ dropreq' = IF n.kind = "drop" THEN dropreq \cup {n.a} ELSE dropreq
  /\ IF n.guid # 0
       THEN /\ registry' = FnSet(registry, n.guid,
                                 [guid |-> n.guid, rank |-> n.rank, team |-> n.team])
            /\ nextGuid' = nextGuid + 1
       ELSE UNCHANGED <<registry, nextGuid>>
  /\ UNCHANGED <<nodes, dmvars, calls, dropped, phase, nsteps, postvars, jitvars,
                 processed, batch, eager, fulfilled>>

\* the arrays the front-ends create: a local scalar, or a distributed array
Shapes == {[rank |-> 0, team |-> 0], [rank |-> MaxRank, team |-> 1]}

\* Creator::full and the like
DeferCreate(t, rank, team) ==
  Defer(t, [thread |-> t, seq |-> sent[t] + 1, kind |-> "create", guid |-> nextGuid,
            a |-> 0, rank |-> rank, team |-> team])

\* Service::drop
DeferDrop(t, a) ==
  Defer(t, [thread |-> t, seq |-> sent[t] + 1, kind |-> "drop", guid |-> 0,
            a |-> a, rank |-> 0, team |-> 0])

\* Service::run
DeferRun(t) ==
  Defer(t, [thread |-> t, seq |-> sent[t] + 1, kind |-> "run", guid |-> 0,
            a |-> 0, rank |-> 0, team |-> 0])

\* Service::replicate
DeferReplicate(t, a) ==
  Defer(t, [thread |-> t, seq |-> sent[t] + 1, kind |-> "replicate",
            guid |-> nextGuid, a |-> a, rank |-> registry[a].rank,
            team |-> registry[a].team])

\* the worker takes the next node and has it generate its MLIR
WEmit ==
  /\ phase = "emit"
  /\ eager = NoNode
  /\ queue # <<>>
  /\ LET n == Head(queue)
         r == generate_mlir(n, DM(FALSE))
     IN /\ queue' = Tail(queue)
        /\ processed' = Append(processed, n)
        /\ Commit(r.s)
        /\ eager' = IF r.run THEN n ELSE NoNode
        /\ batch' = IF r.run THEN batch ELSE Append(batch, n)
        /\ fulfilled' = IF r.set THEN Append(fulfilled, n) ELSE fulfilled
  /\ UNCHANGED <<nextGuid, nodes, calls, dropped, phase, nsteps, postvars, jitvars,
                 pushed, sent, dropreq>>

\* the module is complete: a node asked for its run(), or the queue is empty
WFlush ==
  /\ eager # NoNode \/ (queue = <<>> /\ batch # <<>>)
  /\ StoreInputs
  /\ UNCHANGED schedvars

\* the delivery callbacks set the promises of their nodes
WDeliver(ndebug) ==
  /\ Deliver(ndebug)
  /\ fulfilled' = fulfilled \o
       [i \in DOMAIN delivered' |->
          CHOOSE n \in {pushed[k] : k \in DOMAIN pushed} :
             <<n.thread, n.seq>> = delivered'[i].cb]
  /\ UNCHANGED <<queue, pushed, sent, dropreq, processed, batch, eager>>

\* after the flush the worker runs the node that asked for it and opens a
\* fresh module
WEager ==
  /\ eager # NoNode
  /\ NewBatch
  /\ fulfilled' = IF run(eager, registry) THEN Append(fulfilled, eager) ELSE fulfilled
  /\ eager' = NoNode
  /\ batch' = <<>>
  /\ UNCHANGED <<queue, pushed, sent, dropreq, processed>>

\* the worker opens a fresh module after the flush at an empty queue
WOpen ==
  /\ eager = NoNode
  /\ NewBatch
  /\ batch' = <<>>
  /\ UNCHANGED <<queue, pushed, sent, dropreq, processed, eager, fulfilled>>

SchedNext ==
  \/ \E t \in Threads, shape \in Shapes : DeferCreate(t, shape.rank, shape.team)
  \/ \E t \in Threads, a \in Held : DeferDrop(t, a)
  \/ \E t \in Threads : DeferRun(t)
  \/ \E t \in Threads, a \in Held : DeferReplicate(t, a)
  \/ WEmit
  \/ WFlush
  \/ HandleResult /\ UNCHANGED schedvars
  \/ Run /\ UNCHANGED schedvars
  \/ \E ndebug \in BOOLEAN : WDeliver(ndebug)
  \/ WEager
  \/ WOpen

SchedSpec == Init /\ [][SchedNext]_vars

\* the steps of the worker thread
Worker ==
  \/ WEmit
  \/ WFlush
  \/ HandleResult /\ UNCHANGED schedvars
  \/ Run /\ UNCHANGED schedvars
  \/ \E ndebug \in BOOLEAN : WDeliver(ndebug)
  \/ WEager
  \/ WOpen

\* the worker thread runs for as long as the process does: it is never
\* stopped for ever at a step it can take
SchedFair == Init /\ [][SchedNext]_vars /\ WF_vars(Worker)

\* ------------------------------------------- the JIT on its own
\* the finalised functions of the modules JIT::run is called with: no
\* operation, or one operation whose result is returned
OneOp(rank, dist) ==
  [args |-> <<>>, body |-> <<[rank |-> rank, dist |-> dist]>>,
   results |-> <<[rank |-> rank, dist |-> dist]>>,
   retvals |-> <<[src |-> "op", n |-> 0, rank |-> rank, dist |-> dist]>>,
   returned |-> TRUE]

JitFuncs ==
  {[EmptyFunc EXCEPT !.returned = TRUE]} \cup
  {OneOp(rank, dist) : rank \in Ranks, dist \in BOOLEAN}

JitInit ==
  /\ registry = EmptyFn
  /\ nextGuid = 1
  /\ nodes = EmptyFn
  /\ ivm = <<>>
  /\ args = <<>>
  /\ icm = EmptyFn
  /\ icr = EmptyFn
  /\ irm = EmptyFn
  /\ func = EmptyFunc
  /\ ret = Ok(NoVal)
  /\ calls = <<>>
  /\ dropped = {}
  /\ phase = "finalised"
  /\ nsteps = 0
  /\ inp = <<>>
  /\ osz = 0
  /\ outpos = 0
  /\ delivered = <<>>
  /\ readied = <<>>
  /\ \E env \in CacheEnvs : JITInit(env)
  /\ SchedInit

\* one call of JIT::run with the module of the function f; a throw is caught by
\* the caller, an abort ends the process
JitRun(f, lowers, creates, found, ndebug, ub) ==
  /\ Len(ran) < MaxRuns
  /\ \A i \in DOMAIN ran : ran[i].outcome # "crashed"
  /\ LET text == printModule(f)
         r == JIT_run([useCache |-> useCache, engineCache |-> engineCache,
                       nEngines |-> nEngines],
                      text, lowers, creates, found, ndebug, ub)
     IN /\ engineCache' = r.j.engineCache
        /\ nEngines' = r.j.nEngines
        /\ ran' = Append(ran, r.run)
  /\ func' = f
  /\ UNCHANGED <<registry, nextGuid, nodes, ivm, args, icm, icr, irm, ret, calls,
                 dropped, phase, nsteps, postvars, useCache, jit, schedvars>>

JitNext ==
  \E f \in JitFuncs, lowers, creates, found, ndebug, ub \in BOOLEAN :
     JitRun(f, lowers, creates, found, ndebug, ub)

JitSpec == JitInit /\ [][JitNext]_vars

\* ----------------------------------------------------- batches with JIT::run
\* the worker hands the finished module to JIT::run: the function is invoked
\* and its output buffer returned, or JIT::run throws and the batch is given
\* up, or the process dies. A run counts as a step of the bounded history.
RunJit(lowers, creates, found, ndebug, ub) ==
  /\ phase = "finalised"
  /\ nsteps < MaxSteps
  /\ nsteps' = nsteps + 1
  /\ LET r == JIT_run([useCache |-> useCache, engineCache |-> engineCache,
                       nEngines |-> nEngines],
                      printModule(func), lowers, creates, found, ndebug, ub)
     IN /\ engineCache' = r.j.engineCache
        /\ nEngines' = r.j.nEngines
        /\ ran' = <<IF r.run.outcome = "ok" THEN r.run @@ pack_args(inp, osz) ELSE r.run>>
        /\ phase' = CASE r.run.outcome = "ok" -> "invoked"
                      [] r.run.outcome = "crashed" -> "crashed"
                      [] OTHER -> "aborted"
        /\ ret' = IF r.run.outcome = "ok" THEN ret ELSE Threw(r.run.outcome)
  /\ UNCHANGED <<registry, nextGuid, nodes, ivm, args, icm, icr, irm, func,
                 postvars, useCache, jit, calls, dropped>>

RunNext ==
  /\ phase # "crashed"
  /\ \/ \E sh \in Shapes, deferred \in BOOLEAN : Put(sh.rank, sh.team, deferred)
     \/ \E guid \in Known : GetDependent(guid)
     \/ \E guid \in Pending, ndebug \in BOOLEAN : AddVal(guid, ndebug)
     \/ \E guid \in Known : AddReady(guid)
     \/ \E guid \in Known : Drop(guid)
     \/ StoreInputs
     \/ HandleResult
     \/ \E lowers, creates, found, ndebug, ub \in BOOLEAN :
          RunJit(lowers, creates, found, ndebug, ub)
     \/ \E ndebug \in BOOLEAN : Deliver(ndebug)
     \/ NewBatch
  /\ UNCHANGED schedvars

RunSpec == Init /\ [][RunNext]_vars

\* ------------------------------------------ the JIT and its environment
MaxConfRuns == 2

\* the values of DDPT_USE_CACHE, DDPT_OPT_LEVEL and DDPT_VERBOSE the JIT is
\* constructed with
UseCacheValues == {"unset", "1", "y", "Y", "on", "ON", "0", "yes", ""}

OptLevelValues ==
  {Unset, SetTo(<<"0">>), SetTo(<<"3">>), SetTo(<<"4">>), SetTo(<<"-", "1">>),
   SetTo(<<"x">>), SetTo(<<"2", "x">>), SetTo(<<>>), SetTo(<<" ", "1">>),
   SetTo(<<"9", "9", "9", "9", "9", "9", "9", "9", "9", "9">>)}

VerboseValues == {Unset, SetTo(<<"x">>)}

\* the environments the JIT is constructed in
Envs ==
  [DDPT_PASSES : {Unset, SetTo(<<>>), SetTo(<<Pass("canonicalize")>>)},
   DDPT_USE_GPU : {Unset, SetTo(<<>>), SetTo(<<"1">>)},
   DDPT_GPUX_SO : {Unset, SetTo(<<"gpux.so">>)},
   IMEXROOT : {Unset, SetTo(<<"/imex">>)},
   MLIRROOT : {Unset},
   DDPT_IDTR_SO : {Unset},
   DDPT_VERBOSE : VerboseValues,
   DDPT_USE_CACHE : UseCacheValues,
   DDPT_OPT_LEVEL : OptLevelValues]

\* the process starts: the JIT is constructed in some environment
ConfInit ==
  /\ registry = EmptyFn
  /\ nextGuid = 1
  /\ nodes = EmptyFn
  /\ ivm = <<>>
  /\ args = <<>>
  /\ icm = EmptyFn
  /\ icr = EmptyFn
  /\ irm = EmptyFn
  /\ func = [EmptyFunc EXCEPT !.returned = TRUE]
  /\ ret = Ok(NoVal)
  /\ calls = <<>>
  /\ dropped = {}
  /\ phase = "finalised"
  /\ nsteps = 0
  /\ inp = <<>>
  /\ osz = 0
  /\ outpos = 0
  /\ delivered = <<>>
  /\ readied = <<>>
  /\ \E env \in Envs, parses, host \in BOOLEAN :
        jit = Constructed(env, parses, host)
  /\ useCache = jit.obj.useCache
  /\ engineCache = EmptyFn
  /\ nEngines = 0
  /\ ran = <<>>
  /\ SchedInit

\* one call of JIT::run of the JIT that was constructed, with the module of
\* the function
ConfRun(lowers, creates, found, ndebug, ub) ==
  /\ jit.obj.outcome = "ok"
  /\ Len(ran) < MaxConfRuns
  /\ \A i \in DOMAIN ran : ran[i].outcome # "crashed"
  /\ LET r == JIT_run([useCache |-> useCache, engineCache |-> engineCache,
                       nEngines |-> nEngines],
                      printModule(func), lowers, creates, found, ndebug, ub)
     IN /\ engineCache' = r.j.engineCache
        /\ nEngines' = r.j.nEngines
        /\ ran' = Append(ran, r.run)
  /\ UNCHANGED <<registry, nextGuid, nodes, dmvars, calls, dropped, phase, nsteps,
                 postvars, useCache, jit, schedvars>>

ConfNext ==
  \E lowers, creates, found, ndebug, ub \in BOOLEAN :
     ConfRun(lowers, creates, found, ndebug, ub)

ConfSpec == ConfInit /\ [][ConfNext]_vars

\* ------------------------------------- the types of the imported inputs
\* the arrays a front-end may have registered: of every dtype tag, a scalar or
\* a vector of four elements of which two are owned, with or without halos,
\* on the host or a device, of no team or of team 1
Futs ==
  {[guid |-> 1, dtype |-> dt, rank |-> 0, team |-> tm, device |-> dv,
    shape |-> <<>>, lh_shape |-> NullShape, local_shape |-> <<>>,
    rh_shape |-> NullShape, local_offsets |-> <<>>] :
      dt \in DTypeIds \cup {DTYPE_LAST}, tm \in Teams, dv \in {"", "GPU"}}
  \cup
  {[guid |-> 1, dtype |-> dt, rank |-> 1, team |-> tm, device |-> dv,
    shape |-> <<4>>, lh_shape |-> lh, local_shape |-> <<2>>,
    rh_shape |-> rh, local_offsets |-> <<1>>] :
      dt \in DTypeIds \cup {DTYPE_LAST}, tm \in Teams, dv \in {"", "GPU"},
      lh \in {NullShape, ShapeAt(<<1>>)}, rh \in {NullShape, ShapeAt(<<1>>)}}

MaxImports == 2

\* an array is registered and a batch is open
TypeInit ==
  /\ \E fut \in Futs : registry = FnSet(EmptyFn, 1, fut)
  /\ nextGuid = 2
  /\ nodes = EmptyFn
  /\ ivm = <<>>
  /\ args = <<>>
  /\ icm = EmptyFn
  /\ icr = EmptyFn
  /\ irm = EmptyFn
  /\ func = EmptyFunc
  /\ ret = Ok(NoVal)
  /\ calls = <<>>
  /\ dropped = {}
  /\ phase = "emit"
  /\ nsteps = 0
  /\ inp = <<>>
  /\ osz = 0
  /\ outpos = 0
  /\ delivered = <<>>
  /\ readied = <<>>
  /\ JITInit("unset")
  /\ SchedInit

\* a node asks for the value of the array guid: getDependent, the argument
\* getting the type getTType builds from the array; the throw of getTType
\* leaves the DepManager as it is and ends the batch
ImportInput(guid) ==
  /\ phase = "emit"
  /\ guid \in DOMAIN registry
  /\ LET s == getDependent(DM(FALSE), guid)
         t == argType(registry[guid])
         idx == Len(args)
     IN IF MapHas(ivm, guid)
          THEN Commit(s) /\ UNCHANGED phase
        ELSE IF t.ok
          THEN Commit([s EXCEPT !.func.args = InsertAt(func.args, idx, t.typ)])
               /\ UNCHANGED phase
        ELSE /\ ret' = Threw(t.err)
             /\ phase' = "aborted"
             /\ UNCHANGED <<registry, ivm, args, icm, icr, irm, func>>
  /\ calls' = Append(calls, [op |-> "getDependent", guid |-> guid])
  /\ nsteps' = nsteps + 1
  /\ UNCHANGED <<nextGuid, nodes, dropped, postvars, jitvars, schedvars>>

TypeNext == \E guid \in DOMAIN registry : Len(calls) < MaxImports /\ ImportInput(guid)

TypeSpec == TypeInit /\ [][TypeNext]_vars

\* ------------------------------------------- the factory ids of the nodes
\* the classes of Deferred nodes that are registered with a factory
NodeClasses == {"DeferredFull", "DeferredArange", "DeferredLinspace",
                "DeferredService", "DeferredReplicate"}

DeferredFull_factory == "F_FULL"

DeferredArange_factory == "F_ARANGE"

DeferredLinspace_factory == "F_ARANGE"

DeferredService_factory == "F_SERVICE"

DeferredReplicate_factory == "F_REPLICATE"

\* the virtual call Runable::factory
factory(class) ==
  CASE class = "DeferredFull" -> DeferredFull_factory
    [] class = "DeferredArange" -> DeferredArange_factory
    [] class = "DeferredLinspace" -> DeferredLinspace_factory
    [] class = "DeferredService" -> DeferredService_factory
    [] class = "DeferredReplicate" -> DeferredReplicate_factory

\* the registrations: FACTORY_INIT(class, id)
FACTORY_INIT ==
  {[class |-> "DeferredFull", id |-> "F_FULL"],
   [class |-> "DeferredArange", id |-> "F_ARANGE"],
   [class |-> "DeferredLinspace", id |-> "F_LINSPACE"],
   [class |-> "DeferredService", id |-> "F_SERVICE"],
   [class |-> "DeferredReplicate", id |-> "F_REPLICATE"]}

\* the id the class is registered under
RegisteredId(class) == (CHOOSE r \in FACTORY_INIT : r.class = class).id

\* the front-end thread t creates a node of the class and enqueues it; the
\* node is written with the id its factory() reports
DeferNode(t, class) ==
  /\ Len(pushed) < MaxNodes
  /\ LET n == [thread |-> t, seq |-> sent[t] + 1, class |-> class,
               factory |-> factory(class)]
     IN /\ queue' = defer(queue, n)
        /\ pushed' = Append(pushed, n)
  /\ sent' = [sent EXCEPT ![t] = @ + 1]
  /\ UNCHANGED <<registry, nextGuid, nodes, dmvars, calls, dropped, phase, nsteps,
                 postvars, jitvars, dropreq, processed, batch, eager, fulfilled>>

FactoryNext == \E t \in Threads, class \in NodeClasses : DeferNode(t, class)

FactorySpec == Init /\ [][FactoryNext]_vars

\* ------------------------------------------------------ arange
\* the bits of an unsigned word of the model, standing for the 64 of uint64_t
WordBits == 4

Word == 2 ^ WordBits

Words == 0..(Word - 1)

\* the value of an integer expression as an unsigned word
u64(x) == x % Word

\* the number of elements as the floor of the quotient
DeferredArange_num_floor(start, end, step) == u64(end - start) \div step

\* _num of DeferredArange::generate_mlir: _step is unsigned, so _step < 0 is
\* false and the -1 added is the word of all ones
DeferredArange_num(start, end, step) ==
  u64(end - start + step + (IF step < 0 THEN 1 ELSE u64(0 - 1))) \div step

\* createFloat of an unsigned word: the nearest value a mantissa of one bit
\* less than the word holds, ties to the even mantissa
createFloat(v) ==
  IF v < Word \div 2 THEN v
  ELSE IF v % 2 = 0 THEN v
  ELSE IF ((v - 1) \div 2) % 2 = 0 THEN v - 1
  ELSE v + 1

\* DeferredArange::generate_mlir: a LinSpaceOp from start to start + num * step
\* without the end point, its value registered under the node's guid
DeferredArange_generate_mlir(n, s) ==
  LET dist == n.team # 0
      num == DeferredArange_num(n.start, n.end, n.step)
      op == [op |-> "LinSpaceOp",
             start |-> createFloat(n.start),
             stop |-> createFloat(u64(n.start + u64(num * n.step))),
             num |-> num, endpoint |-> FALSE, rank |-> 1, dist |-> dist]
      val == [src |-> "op", n |-> Len(s.func.body), rank |-> 1, dist |-> dist]
      s1 == [s EXCEPT !.func.body = Append(@, op)]
  IN [s |-> addVal(s1, n.guid, val, <<n.thread, n.seq>>), run |-> FALSE,
      set |-> FALSE]

\* Creator::arange: a front-end has enqueued the node of arange(start, end,
\* step), whose future is registered
ArangeInit ==
  /\ \E start \in Words, end \in Words, step \in Words, team \in Teams :
       LET n == [thread |-> 1, seq |-> 1, kind |-> "create", guid |-> 1, a |-> 0,
                 rank |-> 1, team |-> team, start |-> start, end |-> end,
                 step |-> step]
       IN /\ queue = defer(<<>>, n)
          /\ pushed = <<n>>
          /\ registry = FnSet(EmptyFn, 1, [guid |-> 1, rank |-> 1, team |-> team])
  /\ nextGuid = 2
  /\ sent = [t \in Threads |-> IF t = 1 THEN 1 ELSE 0]
  /\ dropreq = {}
  /\ processed = <<>>
  /\ batch = <<>>
  /\ eager = NoNode
  /\ fulfilled = <<>>
  /\ nodes = EmptyFn
  /\ ivm = <<>>
  /\ args = <<>>
  /\ icm = EmptyFn
  /\ icr = EmptyFn
  /\ irm = EmptyFn
  /\ func = EmptyFunc
  /\ ret = Ok(NoVal)
  /\ calls = <<>>
  /\ dropped = {}
  /\ phase = "emit"
  /\ nsteps = 0
  /\ inp = <<>>
  /\ osz = 0
  /\ outpos = 0
  /\ delivered = <<>>
  /\ readied = <<>>
  /\ JITInit("unset")

\* the worker calls generate_mlir of the node; the division by a step of 0 is
\* undefined and ends the process
ArangeEmit ==
  /\ phase = "emit"
  /\ queue # <<>>
  /\ LET n == Head(queue)
     IN IF n.step = 0
          THEN /\ phase' = "crashed"
               /\ UNCHANGED <<registry, dmvars, queue, processed, batch>>
          ELSE LET r == DeferredArange_generate_mlir(n, DM(FALSE))
               IN /\ Commit(r.s)
                  /\ queue' = Tail(queue)
                  /\ processed' = Append(processed, n)
                  /\ batch' = Append(batch, n)
                  /\ UNCHANGED phase
  /\ UNCHANGED <<nextGuid, nodes, calls, dropped, nsteps, postvars, jitvars,
                 pushed, sent, dropreq, eager, fulfilled>>

ArangeNext == ArangeEmit

ArangeSpec == ArangeInit /\ [][ArangeNext]_vars

\* ------------------------------------------------------ claims
KeySeq(m) == [i \in DOMAIN m |-> m[i].guid]

ArgGuids == {args[i].guid : i \in DOMAIN args}

\* the step is the call op(guid) of a node
IsCall(op, guid) == calls' = Append(calls, [op |-> op, guid |-> guid])

\* position of guid in a sequence of guids
PosIn(seq, guid) == CHOOSE i \in DOMAIN seq : seq[i] = guid

InSeq(seq, guid) == \E i \in DOMAIN seq : seq[i] = guid

\* C1: stable order. While nodes emit, a guid new to ivm goes behind all
\* entries and the others keep their order (ivm is in insertion order);
\* handleResult declares the value of the i-th entry of ivm as the i-th return
\* value and keeps the entries; deliver invokes the delivery callbacks of
\* exactly these guids, in this order.
C1_StableOrder ==
  [][ /\ (phase = "emit" /\ phase' = "emit") =>
           LET old == KeySeq(ivm)
               new == KeySeq(ivm')
           IN \A i, j \in DOMAIN new :
                i < j =>
                  /\ InSeq(old, new[j]) => InSeq(old, new[i])
                  /\ (InSeq(old, new[i]) /\ InSeq(old, new[j])) =>
                       PosIn(old, new[i]) < PosIn(old, new[j])
      /\ (phase = "stored" /\ phase' = "finalised") =>
           /\ func'.retvals = [i \in DOMAIN ivm |-> ivm[i].val]
           /\ func'.results = [i \in DOMAIN ivm |->
                                 [rank |-> ivm[i].val.rank, dist |-> ivm[i].val.dist]]
           /\ KeySeq(ivm') = KeySeq(ivm)
      /\ (phase = "finalised" /\ phase' = "invoked") => KeySeq(ivm') = KeySeq(ivm)
      /\ (phase = "invoked" /\ phase' = "delivered") =>
           /\ Len(delivered') = Len(func.retvals)
           /\ KeySeq(delivered') = KeySeq(ivm)
           /\ \A i \in DOMAIN delivered' : delivered'[i].cb = icm[ivm[i].guid]
    ]_vars

\* two results were delivered, the one with the larger guid first
C1_Witness ==
  /\ phase = "delivered"
  /\ Len(delivered) = 2
  /\ delivered[1].guid > delivered[2].guid

\* C2 (first part): the function has one argument per entry of args, argument i
\* of the type of the i-th future
C2_ArgsMatch ==
  /\ Len(func'.args) = Len(args')
  /\ \A i \in DOMAIN args' : func'.args[i] = getTType(args'[i].fut)

\* C2 (second part): a getDependent of a guid that is not in ivm adds one
\* argument, at index |args|, and one pair, or fails and adds nothing
C2_Import(g) ==
  (IsCall("getDependent", g) /\ ~MapHas(ivm, g)) =>
     IF ret'.ok
       THEN /\ args' = Append(args, [guid |-> g, fut |-> registry[g]])
            /\ func'.args = Append(func.args, getTType(registry[g]))
            /\ ret'.val.src = "arg" /\ ret'.val.n = Len(args)
            /\ MapHas(ivm', g) /\ MapGet(ivm', g) = ret'.val
       ELSE args' = args /\ func' = func

\* C2 as amended: as long as g stays in ivm (it has not been dropped since), every
\* later getDependent(g) returns the recorded value and adds neither
C2_Bijection ==
  [][ /\ C2_ArgsMatch
      /\ \A g \in Guids :
           /\ C2_Import(g)
           /\ (IsCall("getDependent", g) /\ MapHas(ivm, g)) =>
                /\ ret'.ok /\ ret'.val = MapGet(ivm, g)
                /\ args' = args /\ func' = func /\ ivm' = ivm
    ]_vars

\* C2 as stated: every getDependent(g) after the one that imported g in this
\* batch returns the recorded value and adds neither
C2_Original ==
  [][ /\ C2_ArgsMatch
      /\ \A g \in Guids :
           /\ C2_Import(g)
           /\ (IsCall("getDependent", g) /\ g \in ArgGuids) =>
                /\ ret'.ok
                /\ ret'.val.src = "arg" /\ ret'.val.n = PosIn(KeySeq(args), g) - 1
                /\ args' = args /\ func' = func
    ]_vars

\* one guid was imported and a second getDependent of it returned argument 0
C2_Witness ==
  /\ calls = << [op |-> "getDependent", guid |-> 1],
               [op |-> "getDependent", guid |-> 1] >>
  /\ ret.ok /\ ret.val.src = "arg" /\ ret.val.n = 0
  /\ Len(args) = 1 /\ Len(func.args) = 1

\* C3: round-trip size. Each result deliver decodes takes the words
\* ptensor_sz gives for the (rank, isDist) handleResult recorded for its guid,
\* starting where the one before ended; the words consumed in total are half of
\* the size handleResult returned, and no read passes the end of the buffer.
C3_RoundTrip ==
  phase = "delivered" =>
    /\ \A i \in DOMAIN delivered :
         LET e == delivered[i]
         IN /\ e.guid \in DOMAIN irm
            /\ e.words = ptensor_sz(irm[e.guid].rank, irm[e.guid].dist)
            /\ e.at = IF i = 1 THEN 0 ELSE delivered[i - 1].at + delivered[i - 1].words
            /\ e.at + e.words <= osz
    /\ 2 * outpos = osz
    /\ outpos = IF delivered = <<>> THEN 0
                ELSE delivered[Len(delivered)].at + delivered[Len(delivered)].words

\* a distributed array of rank > 0 and a second array were delivered
C3_Witness ==
  /\ phase = "delivered"
  /\ Len(delivered) = 2
  /\ \E i \in DOMAIN delivered : delivered[i].halos /\ delivered[i].rank > 0

\* C8: drop(g) removes g from ivm, icm, icr and the Registry, whether or not g
\* was in ivm, and leaves the entries of every other guid in ivm, icm, icr, irm,
\* args and the Registry as they were.
C8_DropFrame ==
  [][ \A g \in Guids :
        IsCall("drop", g) =>
          /\ ~MapHas(ivm', g)
          /\ g \notin DOMAIN icm'
          /\ g \notin DOMAIN icr'
          /\ g \notin DOMAIN registry'
          /\ KeySeq(ivm') = SelectSeq(KeySeq(ivm), LAMBDA h : h # g)
          /\ \A h \in Guids \ {g} :
               /\ MapHas(ivm, h) => MapGet(ivm', h) = MapGet(ivm, h)
               /\ (h \in DOMAIN icm') = (h \in DOMAIN icm)
               /\ h \in DOMAIN icm => icm'[h] = icm[h]
               /\ (h \in DOMAIN icr') = (h \in DOMAIN icr)
               /\ h \in DOMAIN icr => icr'[h] = icr[h]
               /\ (h \in DOMAIN irm') = (h \in DOMAIN irm)
               /\ h \in DOMAIN irm => irm'[h] = irm[h]
               /\ (h \in DOMAIN registry') = (h \in DOMAIN registry)
               /\ h \in DOMAIN registry => registry'[h] = registry[h]
          /\ SelectSeq(args', LAMBDA a : a.guid # g) =
               SelectSeq(args, LAMBDA a : a.guid # g)
    ]_vars

\* a guid that never was in ivm has just been dropped while ivm holds another
\* guid: the Registry lost it, the other one is still in ivm and the Registry
C8_Witness ==
  /\ calls # <<>>
  /\ LET c == calls[Len(calls)]
     IN /\ c.op = "drop"
        /\ c.guid \notin DOMAIN nodes
        /\ \A i \in DOMAIN calls : i < Len(calls) => calls[i].guid # c.guid
        /\ c.guid \notin DOMAIN registry
  /\ ivm # <<>>
  /\ \A i \in DOMAIN ivm : ivm[i].guid \in DOMAIN registry

\* the guids add_value registered in this batch and drop did not remove since
AddedLive ==
  {g \in Guids : \E i \in DOMAIN calls :
      /\ calls[i] = [op |-> "addVal", guid |-> g]
      /\ \A j \in DOMAIN calls : j > i => calls[j] # [op |-> "drop", guid |-> g]}

\* the guids get_dependent resolved in this batch that no add_value of the batch
\* had registered before
Imported ==
  {g \in Guids : \E i \in DOMAIN calls :
      /\ calls[i] = [op |-> "getDependent", guid |-> g]
      /\ \A j \in DOMAIN calls : j < i => calls[j] # [op |-> "addVal", guid |-> g]}

\* the scenario "a, b created, c = add(a, b), drop a, drop b", as the calls its
\* nodes make on a fresh DepManager, finalised
S1_Op(s, guid, n) ==
  addVal([s EXCEPT !.func.body = Append(@, [rank |-> MaxRank, dist |-> FALSE])],
         guid, [src |-> "op", n |-> n, rank |-> MaxRank, dist |-> FALSE], guid)

S1_Final ==
  LET s0 == [ivm |-> <<>>, args |-> <<>>, icm |-> EmptyFn, icr |-> EmptyFn,
             irm |-> EmptyFn, func |-> EmptyFunc,
             reg |-> [g \in 1..3 |-> [guid |-> g, rank |-> MaxRank, team |-> 0]],
             ret |-> Ok(NoVal), ndebug |-> FALSE]
      a == S1_Op(s0, 1, 0)
      b == S1_Op(a, 2, 1)
      c == S1_Op(getDependent(getDependent(b, 1), 2), 3, 2)
      d == drop(drop(c, 1), 2)
  IN handleResult(store_inputs(d).s).s

\* C9: once the batch is finalised, the function returns one value per guid
\* that add_value registered and drop did not remove, and takes one argument per
\* guid that get_dependent resolved and the batch did not produce; a guid
\* created and dropped in the batch is neither argument nor result, and the
\* scenario a, b created, c = add(a, b), drop a, drop b gives 0 arguments and 1
\* result.
C9_Counts ==
  /\ phase \in {"finalised", "invoked", "delivered"} =>
       /\ Len(func.results) = Cardinality(AddedLive)
       /\ Len(func.retvals) = Cardinality(AddedLive)
       /\ Len(func.args) = Cardinality(Imported)
       /\ \A g \in Guids :
            (/\ [op |-> "addVal", guid |-> g] \in {calls[i] : i \in DOMAIN calls}
             /\ [op |-> "drop", guid |-> g] \in {calls[i] : i \in DOMAIN calls}) =>
               /\ g \notin ArgGuids
               /\ ~MapHas(ivm, g)
  /\ Len(S1_Final.func.args) = 0
  /\ Len(S1_Final.func.results) = 1
  /\ KeySeq(S1_Final.ivm) = <<3>>

\* an array was created, used and dropped in one batch, which is finalised: it
\* is neither argument nor result
C9_Witness ==
  /\ phase = "finalised"
  /\ calls = << [op |-> "addVal", guid |-> 1], [op |-> "getDependent", guid |-> 1],
               [op |-> "drop", guid |-> 1] >>
  /\ Len(func.args) = 0
  /\ Len(func.results) = 0

\* C10: a getDependent of a guid that has been dropped, in this batch or an
\* earlier one, throws (UnknownGuid) and returns no value.
C10_DroppedIsUnknown ==
  [][ \A g \in Guids :
        (IsCall("getDependent", g) /\ g \in dropped) =>
          /\ ~ret'.ok
          /\ ret'.err = "UnknownGuid"
          /\ ret'.val = NoVal
          /\ phase' = "aborted"
    ]_vars

\* a getDependent has thrown for a guid that was dropped in an earlier batch
C10_Witness ==
  /\ phase = "aborted"
  /\ calls # <<>>
  /\ LET c == calls[Len(calls)]
     IN /\ c.op = "getDependent"
        /\ c.guid \in dropped
        /\ \A i \in DOMAIN calls : calls[i].op # "drop"
  /\ ret.err = "UnknownGuid"

\* the run got an execution engine to invoke
HasEngine(r) == r.outcome \in {"ok", "InvokeFailure"}

\* C7 as stated: with the cache enabled, a run of a module whose text is that of
\* an earlier run uses the engine of that run, builds no engine and runs no
\* pass pipeline; runs of modules with different texts use different engines
C7_Original ==
  useCache =>
    \A i, k \in DOMAIN ran :
      i < k =>
        /\ ran[i].text = ran[k].text =>
             /\ ~ran[k].built
             /\ ~ran[k].piped
             /\ (HasEngine(ran[i]) \/ HasEngine(ran[k])) => ran[k].engine = ran[i].engine
        /\ (ran[i].text # ran[k].text /\ HasEngine(ran[i]) /\ HasEngine(ran[k])) =>
             ran[i].engine # ran[k].engine

\* C7 as amended: with the cache enabled, a run of a module whose text is that of
\* an earlier run that built its engine uses that engine, builds no engine and
\* runs no pass pipeline; a run whose pass pipeline failed leaves nothing in the
\* cache, the next run of its text runs the pipeline again; runs of modules with
\* different texts use different engines.
C7_CacheDeterminism ==
  useCache =>
    /\ \A i, k \in DOMAIN ran :
         i < k =>
           /\ (ran[i].text = ran[k].text /\ ran[i].built) =>
                /\ ~ran[k].built
                /\ ~ran[k].piped
                /\ ran[k].engine = ran[i].engine
           /\ (ran[i].text # ran[k].text /\ HasEngine(ran[i]) /\ HasEngine(ran[k])) =>
                ran[i].engine # ran[k].engine
    /\ \A i \in DOMAIN ran :
         (ran[i].outcome = "PassFailure" /\ i < Len(ran)
            /\ ran[i + 1].text = ran[i].text) => ran[i + 1].piped
    /\ \A c, d \in DOMAIN engineCache :
         c # d => engineCache[c] # engineCache[d]

\* three runs with the cache enabled: the second has the text of the first and
\* uses its engine without building, the third has another text and another
\* engine
C7_Witness ==
  /\ useCache
  /\ Len(ran) = 3
  /\ ran[1].built /\ ran[1].outcome = "ok"
  /\ ran[2].text = ran[1].text
  /\ ran[2].engine = ran[1].engine /\ ~ran[2].built /\ ran[2].outcome = "ok"
  /\ ran[3].text # ran[1].text
  /\ ran[3].built /\ ran[3].engine # ran[1].engine

SeqSet(seq) == {seq[i] : i \in DOMAIN seq}

\* the nodes of the current module whose array is returned: created and not
\* dropped in the module
LiveCreates ==
  SelectSeq(batch, LAMBDA n : /\ n.kind = "create"
                              /\ \A d \in SeqSet(batch) :
                                   ~(d.kind = "drop" /\ d.a = n.guid))

FreshModule ==
  /\ phase' = "emit"
  /\ ivm' = <<>> /\ args' = <<>>
  /\ icm' = EmptyFn /\ icr' = EmptyFn /\ irm' = EmptyFn
  /\ func' = EmptyFunc
  /\ batch' = <<>>

\* C4: request-eager fallback. When generate_mlir of a node returns true, the
\* node generated nothing; no further node generates MLIR until the nodes of the
\* current module have been compiled, invoked and delivered; then the run() of
\* the node executes (a RUN sets its promise), and the worker goes on with the
\* queue in a fresh module with a fresh DepManager.
C4_EagerFallback ==
  [][ /\ (eager = NoNode /\ eager' # NoNode) =>
           /\ processed' = Append(processed, eager')
           /\ eager' = Head(queue)
           /\ dmvars' = dmvars /\ registry' = registry
           /\ batch' = batch /\ fulfilled' = fulfilled
      /\ eager # NoNode =>
           /\ processed' = processed
           /\ eager' \in {eager, NoNode}
           /\ eager' = eager => batch' = batch
           /\ eager' = NoNode =>
                /\ phase = "delivered"
                /\ \A m \in SeqSet(LiveCreates) : m \in SeqSet(fulfilled)
                /\ eager.kind = "run" => fulfilled' = Append(fulfilled, eager)
                /\ (eager.kind = "replicate" /\ RegistryHas(registry, eager.a)) =>
                     fulfilled' = Append(fulfilled, eager)
                /\ FreshModule
    ]_vars

\* a node was created and delivered, the RUN behind it was run, and the node
\* behind that has generated its MLIR into the fresh module
C4_Witness ==
  /\ Len(processed) = 3
  /\ processed[1].kind = "create" /\ processed[2].kind = "run"
  /\ fulfilled = <<processed[1], processed[2]>>
  /\ batch = <<processed[3]>>
  /\ processed[3].kind = "create"
  /\ KeySeq(ivm) = <<processed[3].guid>>

\* C5: no reordering. The worker takes the nodes in the order they were
\* enqueued; the values a module returns and the deliveries are in the order
\* their nodes generated MLIR; and the array of every node processed so far
\* (and not dropped) is a value of the current module or has been delivered.
C5_NoReordering ==
  /\ processed = SubSeq(pushed, 1, Len(processed))
  /\ queue = SubSeq(pushed, Len(processed) + 1, Len(pushed))
  /\ \E f \in [DOMAIN batch -> DOMAIN processed] :
       /\ \A i \in DOMAIN batch : batch[i] = processed[f[i]]
       /\ \A i, j \in DOMAIN batch : i < j => f[i] < f[j]
  /\ phase \in {"emit", "stored", "finalised", "invoked", "delivered"} =>
       KeySeq(ivm) = [i \in DOMAIN LiveCreates |-> LiveCreates[i].guid]
  /\ phase \in {"finalised", "invoked", "delivered"} =>
       /\ Len(func.retvals) = Len(LiveCreates)
       /\ \A i \in DOMAIN LiveCreates :
            /\ func.retvals[i].src = "op"
            /\ func.body[func.retvals[i].n + 1] =
                 [rank |-> LiveCreates[i].rank, dist |-> LiveCreates[i].team # 0]
            /\ func.results[i] = func.body[func.retvals[i].n + 1]
  /\ \A i, j \in DOMAIN func.retvals : i < j => func.retvals[i].n < func.retvals[j].n
  /\ phase = "delivered" =>
       KeySeq(delivered) = [i \in DOMAIN LiveCreates |-> LiveCreates[i].guid]
  /\ \A m \in SeqSet(processed) :
       (m.kind = "create" /\ \A d \in SeqSet(processed) :
                               ~(d.kind = "drop" /\ d.a = m.guid)) =>
         \/ m \in SeqSet(batch) /\ MapHas(ivm, m.guid)
         \/ m \in SeqSet(fulfilled)

\* two threads have each enqueued a creation; both arrays were returned by one
\* module and delivered in the order of the queue
C5_Witness ==
  /\ phase = "delivered"
  /\ Len(batch) = 2
  /\ batch[1].thread # batch[2].thread
  /\ batch[1].kind = "create" /\ batch[2].kind = "create"
  /\ KeySeq(delivered) = <<batch[1].guid, batch[2].guid>>
  /\ fulfilled = batch

\* every enqueued node is in the queue or was taken from it once, the nodes of
\* a thread in the order the thread enqueued them
C6_Once ==
  /\ processed \o queue = pushed
  /\ \A i, j \in DOMAIN pushed : i # j => pushed[i] # pushed[j]
  /\ \A i, j \in DOMAIN processed :
       (i < j /\ processed[i].thread = processed[j].thread) =>
          processed[i].seq < processed[j].seq
  /\ \A n \in SeqSet(processed) :
       \/ n \in SeqSet(batch) /\ n # eager
       \/ n = eager /\ n \notin SeqSet(batch)
       \/ n \notin SeqSet(batch) /\ n # eager
  /\ \A i, j \in DOMAIN fulfilled : i # j => fulfilled[i] # fulfilled[j]

FreshDM(reg) ==
  [ivm |-> <<>>, args |-> <<>>, icm |-> EmptyFn, icr |-> EmptyFn,
   irm |-> EmptyFn, func |-> EmptyFunc, reg |-> reg, ret |-> Ok(NoVal),
   ndebug |-> FALSE]

\* addVal of a guid the Registry does not hold, then getDependent of it
C11_Unregistered ==
  LET v == [src |-> "op", n |-> 0, rank |-> MaxRank, dist |-> TRUE]
      a == addVal(FreshDM(EmptyFn), 1, v, 1)
      b == getDependent(a, 1)
  IN /\ b.ret = Ok(v)
     /\ b.args = <<>> /\ b.func.args = <<>>
     /\ b.ivm = a.ivm

\* C11: a guid that addVal registered in this batch and drop has not removed
\* since is in ivm with the value of its operation, and every getDependent of
\* it returns that value and adds neither a function argument nor a pair to
\* args; the Registry is not asked.
C11_AddedResolves ==
  [][ /\ C11_Unregistered
      /\ \A g \in AddedLive :
           /\ phase = "emit" =>
                /\ MapHas(ivm, g)
                /\ MapGet(ivm, g).src = "op"
                /\ func.body[MapGet(ivm, g).n + 1] =
                     [rank |-> nodes[g].rank, dist |-> nodes[g].team # 0]
           /\ IsCall("getDependent", g) =>
                /\ ret' = Ok(MapGet(ivm, g))
                /\ args' = args /\ func' = func /\ ivm' = ivm
                /\ registry' = registry
       ]_vars

\* a node registered its value and the next call, a getDependent of its guid,
\* got that value back; nothing was imported
C11_Witness ==
  /\ calls = << [op |-> "addVal", guid |-> 1], [op |-> "getDependent", guid |-> 1] >>
  /\ ret.ok /\ ret.val.src = "op"
  /\ ret.val = MapGet(ivm, 1)
  /\ args = <<>> /\ func.args = <<>>

\* C12: addVal of a guid that ivm holds already is rejected as an
\* InvariantViolation and leaves the recorded value and the delivery callback
\* of the guid as they were.
C12_Rejected ==
  [][ \A g \in Guids :
        (IsCall("addVal", g) /\ MapHas(ivm, g)) =>
          /\ ret' = Threw("InvariantViolation")
          /\ ivm' = ivm
          /\ icm' = icm
    ]_vars

\* the descriptor words of the inputs in the order of args: 3 + 2*rank words
\* for each (guid, future), shown as the guid they belong to
RECURSIVE C13_Words(_)
C13_Words(as) ==
  IF as = <<>>
    THEN <<>>
    ELSE C13_Words(SubSeq(as, 1, Len(as) - 1)) \o
           [i \in 1..(3 + 2 * as[Len(as)].fut.rank) |-> as[Len(as)].guid]

\* one local input of rank 2 in a DepManager that made no other call
C13_S2 ==
  LET x == [guid |-> 1, rank |-> 2, team |-> 0]
      s == getDependent(FreshDM(FnSet(EmptyFn, 1, x)), 1)
      r == store_inputs(s)
  IN /\ Len(s.func.args) = 1
     /\ Len(r.res) = 7
     /\ r.s.ivm = <<>>

\* C13: store_inputs returns the descriptor words of the pairs of args,
\* concatenated in the order of args (7 words for one local input of rank 2),
\* and leaves no argument guid in ivm; deliver calls no delivery callback for
\* an argument.
C13_StoreInputs ==
  [][ /\ C13_S2
      /\ (phase = "emit" /\ phase' = "stored") =>
            /\ inp' = C13_Words(args)
            /\ \A i \in 1..Len(args) : ~MapHas(ivm', args[i].guid)
            /\ \A i \in 1..Len(ivm') : MapHas(ivm, ivm'[i].guid)
      /\ phase' = "delivered" =>
            \A i \in 1..Len(delivered') : delivered'[i].guid \notin ArgGuids'
    ]_vars

\* two inputs of different rank were imported, their words stored in the order
\* of args, and the batch was delivered
C13_Witness ==
  /\ phase = "delivered"
  /\ Len(args) = 2
  /\ args[1].fut.rank # args[2].fut.rank
  /\ inp = C13_Words(args)
  /\ ivm = <<>>

\* seq is an initial part of longer
IsPrefix(seq, longer) ==
  /\ Len(seq) <= Len(longer)
  /\ SubSeq(longer, 1, Len(seq)) = seq

\* C14 as stated: once store_inputs has returned, the DepManager holds no
\* future of an imported input.
C14_Original ==
  phase \in {"stored", "finalised", "invoked", "delivered"} => args = <<>>

\* C14: the futures in args are kept from their import on: no call of a batch
\* removes or replaces one, store_inputs leaves args as it is, and so does
\* every later step of the batch; the futures go when the DepManager is
\* discarded for the next batch.
C14_FuturesHeld ==
  [][ /\ (phase = "emit" \/ phase' # "emit") => IsPrefix(args, args')
      /\ (phase = "emit" /\ phase' = "stored") => args' = args
      /\ (phase # "emit" /\ phase' # "emit") => args' = args
      /\ (phase # "emit" /\ phase' = "emit") => args' = <<>>
      /\ \A i \in 1..Len(args') : args'[i].fut.guid = args'[i].guid
    ]_vars

\* a batch was delivered whose DepManager still holds the future of an input
\* that the batch itself removed from the Registry
C14_Witness ==
  /\ phase = "delivered"
  /\ Len(args) = 1
  /\ ~RegistryHas(registry, args[1].guid)
  /\ args[1].fut.guid = args[1].guid
  /\ Len(inp) = memref_sz(args[1].fut.rank)

\* the words the jit function returns for one result of that type
C15_Words(rank, dist) ==
  IF dist /\ rank > 0 THEN 3 * (3 + 2 * rank) + 5 ELSE 3 + 2 * rank

\* the sum of C15_Words over the first n entries of the map m
RECURSIVE C15_Sum(_, _)
C15_Sum(m, n) ==
  IF n = 0 THEN 0
           ELSE C15_Sum(m, n - 1) + C15_Words(m[n].val.rank, m[n].val.dist)

\* C15: handleResult records (rank, is distributed) in irm for every entry of
\* ivm and returns twice the sum of the entries' result words (0 for no entry,
\* 2 * 20 for one distributed result of rank 1); the keys of ivm and their
\* order stay as they are.
C15_HandleResult ==
  [][ (phase = "stored" /\ phase' = "finalised") =>
        /\ KeySeq(ivm') = KeySeq(ivm)
        /\ \A i \in 1..Len(ivm) :
             /\ ivm[i].guid \in DOMAIN irm'
             /\ irm'[ivm[i].guid] =
                  [rank |-> ivm[i].val.rank, dist |-> ivm[i].val.dist]
        /\ osz' = 2 * C15_Sum(ivm, Len(ivm))
        /\ (ivm = <<>> => osz' = 0)
        /\ ((Len(ivm) = 1 /\ ivm[1].val.dist /\ ivm[1].val.rank = 1)
              => osz' = 2 * ptensor_sz(1, TRUE) /\ osz' = 40)
    ]_vars

\* handleResult ran on a batch whose only result is distributed and of rank 1
C15_Witness ==
  /\ phase = "finalised"
  /\ Len(ivm) = 1
  /\ irm = FnSet(EmptyFn, ivm[1].guid, [rank |-> 1, dist |-> TRUE])
  /\ osz = 40

\* C16: deliver decodes a distributed result of rank R > 0 as three memrefs of
\* rank R, the left halo, the local data and the right halo in that order,
\* followed by the local offsets as one memref of rank 1: 3*(3+2R) + 5 words.
\* A result that is local or of rank 0 is decoded as one memref of 3+2R words,
\* the local data, and the callback gets null for both halos and the local
\* offsets.
C16_Decode ==
  phase = "delivered" =>
    \A i \in DOMAIN delivered :
      LET e == delivered[i]
          R == irm[e.guid].rank
      IN /\ e.rank = R
         /\ IF irm[e.guid].dist /\ R > 0
              THEN /\ e.lhsHalo = e.at
                   /\ e.lData = e.at + (3 + 2 * R)
                   /\ e.rhsHalo = e.at + 2 * (3 + 2 * R)
                   /\ e.lo = e.at + 3 * (3 + 2 * R)
                   /\ e.words = 3 * (3 + 2 * R) + 5
                   /\ e.at + e.words = e.lo + (3 + 2 * 1)
              ELSE /\ e.lData = e.at
                   /\ e.words = 3 + 2 * R
                   /\ e.lhsHalo = nullptr /\ e.rhsHalo = nullptr
                   /\ e.lo = nullptr

\* a distributed result of rank > 0 and a distributed result of rank 0 were
\* delivered in one batch, the first with halos and local offsets, the second
\* without
C16_Witness ==
  /\ phase = "delivered"
  /\ \E i, j \in DOMAIN delivered :
       /\ irm[delivered[i].guid] = [rank |-> MaxRank, dist |-> TRUE]
       /\ delivered[i].lo = delivered[i].at + 3 * memref_sz(MaxRank)
       /\ irm[delivered[j].guid] = [rank |-> 0, dist |-> TRUE]
       /\ delivered[j].lo = nullptr /\ delivered[j].lhsHalo = nullptr

\* the last drop(g) among the calls of the batch (0: none)
LastDrop(g) ==
  LET ds == {i \in DOMAIN calls : calls[i] = [op |-> "drop", guid |-> g]}
  IN IF ds = {} THEN 0 ELSE CHOOSE i \in ds : \A j \in ds : j <= i

\* how many addReady(g) the batch made after position from
ReadyCalls(g, from) ==
  Cardinality({i \in DOMAIN calls :
                 i > from /\ calls[i] = [op |-> "addReady", guid |-> g]})

\* the ready callbacks fired for g, in the order they were fired
FiredFor(rd, g) ==
  LET f == SelectSeq(rd, LAMBDA e : e.guid = g)
  IN [i \in DOMAIN f |-> f[i].cb]

\* the ready callbacks registered for g
IcrAt(m, g) == IF g \in DOMAIN m THEN m[g] ELSE <<>>

C18_RunOutcome ==
  \A env \in CacheEnvs, lowers, creates, found, ndebug, ub \in BOOLEAN :
    LET j == [useCache |-> parseUseCache(env), engineCache |-> EmptyFn,
              nEngines |-> 0]
        out == JIT_run(j, printModule(EmptyFunc), lowers, creates, found,
                       ndebug, ub).run.outcome
    IN /\ out = "ok" <=> (lowers /\ creates /\ found)
       /\ ~lowers => out = "PassFailure"
       /\ (lowers /\ creates /\ ~found) => out = "InvokeFailure"
       /\ (lowers /\ ~creates) => out = "crashed"

\* the step is a run of the batch's module
IsRun == phase = "finalised" /\ phase' # "finalised"

\* C18: no delivery or ready callback of a batch runs before the batch's
\* function has returned; a run that fails in Compile or Invoke is followed by
\* no callback of its batch, the Registry is left as it is, and the batch that
\* follows a failed one starts with an empty DepManager; a process that died
\* runs nothing more.
C18_PostInvocation ==
  [][ /\ C18_RunOutcome
      /\ (phase \notin {"invoked", "delivered"} \/ phase' \notin {"invoked", "delivered"})
           => (delivered' = <<>> /\ readied' = <<>>)
      /\ IsRun =>
           /\ ran'[1].text = printModule(func)
           /\ (ran'[1].outcome = "ok") <=> (phase' = "invoked")
           /\ (ran'[1].outcome \in {"PassFailure", "InvokeFailure"})
                <=> (phase' = "aborted")
           /\ (ran'[1].outcome = "crashed") <=> (phase' = "crashed")
           /\ phase' # "invoked" => ret' = Threw(ran'[1].outcome)
           /\ registry' = registry
           /\ <<ivm', args', icm', icr', irm', func'>> =
                <<ivm, args, icm, icr, irm, func>>
      /\ phase = "aborted" =>
           /\ \A g \in DOMAIN registry :
                g \in DOMAIN registry' /\ registry'[g] = registry[g]
           /\ phase' # "aborted" =>
                /\ phase' = "emit"
                /\ registry' = registry
                /\ <<ivm', args', icm', icr', irm', func'>> =
                     <<<<>>, <<>>, EmptyFn, EmptyFn, EmptyFn, EmptyFunc>>
      /\ phase # "crashed"
    ]_vars

\* the lookup of the function failed for a batch with a result and a ready
\* callback: no callback has run, the Registry has its entries
C18_Witness ==
  /\ phase = "aborted"
  /\ ret = Threw("InvokeFailure")
  /\ Len(ivm) = 1 /\ DOMAIN icm # {} /\ DOMAIN icr # {}
  /\ delivered = <<>> /\ readied = <<>>
  /\ DOMAIN registry # {}

\* the worker has processed a drop of the array g
DropProcessed(g) ==
  \E j \in DOMAIN processed : processed[j].kind = "drop" /\ processed[j].a = g

C20_FreshGuid ==
  [][ /\ nextGuid' # nextGuid =>
           \E g \in DOMAIN registry' \ DOMAIN registry :
              /\ DOMAIN registry' = DOMAIN registry \cup {g}
              /\ registry'[g].guid = g
              /\ g # NOGUID
              /\ g \notin dropped
              /\ \A h \in DOMAIN registry \cup dropped : h < g
              /\ nextGuid' > g
      /\ ~(DOMAIN registry' \subseteq DOMAIN registry) => nextGuid' # nextGuid
      /\ nextGuid' >= nextGuid
    ]_vars

\* two ids have been handed out and the first has been deleted: the Registry
\* holds the second only, and the next id is a third
C20_Witness ==
  /\ dropped = {1}
  /\ DOMAIN registry = {2}
  /\ nextGuid = 3

\* two arrays with a value, a delivery callback and a ready callback each; the
\* first is dropped twice
C21_Twice ==
  LET fut(g) == [guid |-> g, rank |-> MaxRank, team |-> 1]
      v(n) == [src |-> "op", n |-> n, rank |-> MaxRank, dist |-> TRUE]
      reg == FnSet(FnSet(EmptyFn, 1, fut(1)), 2, fut(2))
      a == addVal(FreshDM(reg), 1, v(0), 1)
      b == addReady(addVal(a, 2, v(1), 2), 2, 3)
      once == drop(addReady(b, 1, 4), 1)
      twice == drop(once, 1)
  IN /\ twice = once
     /\ KeySeq(twice.ivm) = <<2>> /\ MapGet(twice.ivm, 2) = v(1)
     /\ twice.icm = FnSet(EmptyFn, 2, 2)
     /\ twice.icr = FnSet(EmptyFn, 2, <<3>>)
     /\ twice.reg = FnSet(EmptyFn, 2, fut(2))

\* C21: a drop(g) that directly follows a drop(g) changes nothing and reports
\* no error; no drop of a guid that was dropped before removes anything from
\* the Registry or touches the entry of another guid, and a dropped guid does
\* not come back into the Registry or ivm, so that no array is released twice.
C21_DropTwice ==
  [][ /\ C21_Twice
      /\ \A g \in dropped :
           /\ ~RegistryHas(registry, g) /\ ~MapHas(ivm, g)
           /\ IsCall("drop", g) =>
                /\ ret'.ok
                /\ registry' = registry
                /\ ivm' = ivm /\ icm' = icm /\ args' = args /\ irm' = irm
                /\ func' = func
                /\ \A h \in Guids \ {g} :
                     (h \in DOMAIN icr) => (h \in DOMAIN icr' /\ icr'[h] = icr[h])
                /\ (calls # <<>> /\ calls[Len(calls)] = [op |-> "drop", guid |-> g])
                     => icr' = icr
    ]_vars

\* an array was dropped twice in a row in one batch
C21_Witness ==
  /\ Len(calls) >= 2
  /\ calls[Len(calls)] = [op |-> "drop", guid |-> 1]
  /\ calls[Len(calls) - 1] = [op |-> "drop", guid |-> 1]
  /\ 1 \in dropped
  /\ ret.ok /\ phase = "emit"

\* a function with two input words and an output buffer of ten words
C22_Both ==
  LET p == pack_args(<<1, 1>>, 10)
  IN /\ p.args = <<[slot |-> "out", i |-> 0], [slot |-> "inp", i |-> 1], [slot |-> "inp", i |-> 2]>>
     /\ Len(p.out) = 10

\* C22: the argument vector of an invocation is the address of the output
\* buffer's pointer, present iff osz > 0, followed by the address of each word
\* of store_inputs' result in order; the output buffer returned has osz words.
C22_PackedArgs ==
  [][ /\ C22_Both
      /\ (IsRun /\ phase' = "invoked") =>
           LET r == ran'[1]
               off == IF osz > 0 THEN 1 ELSE 0
           IN /\ Len(r.args) = off + Len(inp)
              /\ osz > 0 => r.args[1] = [slot |-> "out", i |-> 0]
              /\ \A k \in 1..Len(inp) : r.args[off + k] = [slot |-> "inp", i |-> k]
              /\ \A k \in 1..Len(r.args) : (r.args[k].slot = "out") => (k = 1 /\ osz > 0)
              /\ Len(r.out) = osz
    ]_vars

\* a function with an input and no result was invoked: its argument vector has
\* the addresses of the input's words and no output slot
C22_Witness ==
  /\ phase = "invoked"
  /\ osz = 0 /\ Len(inp) > 0
  /\ Len(ran[1].args) = Len(inp)
  /\ ran[1].args[1] = [slot |-> "inp", i |-> 1]
  /\ ran[1].out = <<>>

\* C23: the cache of engines is never evicted: across every call of JIT::run the
\* set of cached digests only grows and a digest once cached keeps its engine.
C23_NeverEvicted ==
  [][ /\ DOMAIN engineCache \subseteq DOMAIN engineCache'
      /\ \A c \in DOMAIN engineCache : engineCache'[c] = engineCache[c]
    ]_vars

\* a module was compiled and cached, another module was compiled and cached
\* after it, and a third run of the first module got the first engine again
C23_Witness ==
  /\ Len(ran) = 3
  /\ ran[1].built /\ ran[2].built
  /\ ran[2].text # ran[1].text
  /\ ran[3].text = ran[1].text
  /\ ~ran[3].piped
  /\ ran[3].engine = ran[1].engine
  /\ Cardinality(DOMAIN engineCache) = 2
  /\ engineCache[sha1(ran[1].text)] = ran[1].engine

\* C27: the cache of engines is on iff DDPT_USE_CACHE is unset or exactly one
\* of "1", "y", "Y", "on", "ON"; with the cache off every run builds an engine
\* of its own and the cache stays empty.
C27_CacheSwitch ==
  [][ /\ jit.obj.outcome = "ok" =>
           (useCache <=> jit.env.DDPT_USE_CACHE \in {"unset", "1", "y", "Y", "on", "ON"})
      /\ ~useCache =>
           /\ engineCache = EmptyFn /\ engineCache' = EmptyFn
           /\ LET r == ran'[Len(ran')]
              IN /\ r.piped
                 /\ r.built => /\ nEngines' = nEngines + 1
                               /\ \A i \in DOMAIN ran : ran[i].engine # r.engine
    ]_vars

\* with DDPT_USE_CACHE=yes the same module was run twice and compiled twice,
\* into two engines, and the cache is empty
C27_Witness ==
  /\ jit.env.DDPT_USE_CACHE = "yes"
  /\ ~useCache
  /\ Len(ran) = 2
  /\ ran[1].text = ran[2].text
  /\ ran[1].built /\ ran[2].built /\ ran[2].piped
  /\ ran[1].engine # ran[2].engine
  /\ engineCache = EmptyFn

\* the libraries every JIT loads, and the gpu runtime of the environment
C26_HostLibs(j) ==
  /\ Len(j.obj.sharedLibPaths) >= 3
  /\ j.obj.sharedLibPaths[1] = <<"CMAKE_MLIR_ROOT", "/lib/libmlir_c_runner_utils.so">>
  /\ j.obj.sharedLibPaths[2] = <<"CMAKE_MLIR_ROOT", "/lib/libmlir_runner_utils.so">>
  /\ j.obj.sharedLibPaths[3] = <<"libidtr.so">>

C26_GpuLib(env) ==
  IF env.DDPT_GPUX_SO.set THEN env.DDPT_GPUX_SO.val
  ELSE (IF env.IMEXROOT.set THEN env.IMEXROOT.val ELSE <<"CMAKE_IMEX_ROOT">>)
         \o <<"/lib/liblevel-zero-runtime.so">>

\* the selection with the gpu chosen iff gpu holds of the environment
C26_Selected(j, gpu) ==
  /\ j.obj.pipeline = IF j.env.DDPT_PASSES.set THEN j.env.DDPT_PASSES.val
                      ELSE IF gpu THEN gpu_pipeline ELSE cpu_pipeline
  /\ C26_HostLibs(j)
  /\ j.obj.sharedLibPaths =
       SubSeq(j.obj.sharedLibPaths, 1, 3) \o
         (IF gpu THEN <<C26_GpuLib(j.env)>> ELSE <<>>)

\* C26 as stated: the gpu pipeline and the gpu runtime are chosen iff
\* DDPT_USE_GPU is not empty
C26_Original ==
  jit.obj.outcome = "ok" =>
    C26_Selected(jit, jit.env.DDPT_USE_GPU.set /\ jit.env.DDPT_USE_GPU.val # <<>>)

\* C26: DDPT_PASSES, when set, is the whole pipeline; otherwise the gpu
\* pipeline is used iff DDPT_USE_GPU is set, whatever its value, else the cpu
\* pipeline; the libraries are the C runner utilities, the runner utilities
\* and the distributed runtime, followed iff DDPT_USE_GPU is set by the gpu
\* runtime: DDPT_GPUX_SO, else lib/liblevel-zero-runtime.so of the IMEX root.
C26_Selection ==
  jit.obj.outcome = "ok" => C26_Selected(jit, jit.env.DDPT_USE_GPU.set)

\* a JIT constructed with DDPT_USE_GPU set to the empty string and neither
\* DDPT_PASSES nor DDPT_GPUX_SO set: the gpu pipeline and four libraries
C26_Witness ==
  /\ jit.obj.outcome = "ok"
  /\ jit.env.DDPT_USE_GPU = SetTo(<<>>)
  /\ ~jit.env.DDPT_PASSES.set /\ ~jit.env.DDPT_GPUX_SO.set
  /\ jit.env.IMEXROOT = SetTo(<<"/imex">>)
  /\ jit.obj.pipeline = gpu_pipeline
  /\ Len(jit.obj.sharedLibPaths) = 4
  /\ jit.obj.sharedLibPaths[4] = <<"/imex", "/lib/liblevel-zero-runtime.so">>

\* the integer a string spells: white space, an optional sign and digits up
\* to its end, of a value that fits an int
C28_Integer(str) ==
  LET i == stoi_space(str, 1)
      neg == i <= Len(str) /\ str[i] = "-"
      j == IF i <= Len(str) /\ str[i] \in {"-", "+"} THEN i + 1 ELSE i
      r == stoi_digits(str, j, [n |-> 0, val |-> 0, big |-> FALSE])
  IN [ok |-> r.n > 0 /\ j + r.n = Len(str) + 1 /\ ~r.big,
      val |-> IF neg THEN 0 - r.val ELSE r.val]

\* C28: the optimisation level is 3 when DDPT_OPT_LEVEL is not set and the
\* given integer when it is one of 0..3; for every other value, out of range
\* or not an integer, the construction of the JIT fails.
C28_OptLevel ==
  LET ol == jit.env.DDPT_OPT_LEVEL
      n == C28_Integer(ol.val)
  IN /\ (~ol.set /\ jit.obj.outcome = "ok") => jit.obj.jit_opt_level = 3
     /\ (ol.set /\ n.ok /\ n.val \in 0..3 /\ jit.obj.outcome = "ok")
           => jit.obj.jit_opt_level = n.val
     /\ (ol.set /\ ~(n.ok /\ n.val \in 0..3)) => jit.obj.outcome # "ok"

\* the JIT was constructed with DDPT_OPT_LEVEL=2x, at level 2
C28_Accepted ==
  /\ jit.env.DDPT_OPT_LEVEL = SetTo(<<"2", "x">>)
  /\ jit.obj.outcome = "ok"
  /\ jit.obj.jit_opt_level = 2

\* the positions of the passes of the set names in the pipeline p
C29_Pos(p, names) == {i \in DOMAIN p : p[i].pass \in names}

\* every pass of the set A is in p, and all passes of A come before all of B
C29_Before(p, A, B) ==
  /\ \A a \in A : C29_Pos(p, {a}) # {}
  /\ \A i \in C29_Pos(p, A), k \in C29_Pos(p, B) : i < k

C29_Distributed ==
  {"ptensor-dist", "dist-coalesce", "dist-infer-elementwise-cores",
   "convert-dist-to-standard", "lower-distruntime-to-idtr"}

C29_ArrayToLoop == {"convert-ptensor-to-linalg", "convert-linalg-to-parallel-loops"}

C29_Bufferize ==
  {"arith-bufferize", "scf-bufferize", "tensor-bufferize",
   "bufferization-bufferize", "linalg-bufferize", "finalizing-bufferize"}

C29_Spirv ==
  {"set-spirv-capabilities", "set-spirv-abi-attrs", "imex-convert-gpu-to-spirv",
   "spirv-lower-abi-attrs", "spirv-update-vce", "serialize-spirv"}

C29_ToLLVM ==
  {"convert-func-to-llvm", "convert-math-to-llvm", "convert-gpux-to-llvm",
   "finalize-memref-to-llvm", "reconcile-unrealized-casts"}

C29_Ordered(p) ==
  /\ C29_Before(p, C29_Distributed, C29_ArrayToLoop)
  /\ C29_Before(p, C29_ArrayToLoop, {})
  /\ C29_Before(p, C29_Bufferize, {"convert-scf-to-cf"})

C29_GpuBlock(p) ==
  LET block == {"gpu-kernel-outlining", "convert-gpu-to-gpux"} \cup C29_Spirv
  IN /\ C29_Before(p, {"convert-linalg-to-parallel-loops"}, block)
     /\ C29_Before(p, block, C29_ToLLVM)
     /\ C29_Before(p, C29_ToLLVM, {})
     /\ "func-bufferize" \in {p[i].pass : i \in DOMAIN p}

\* C29: in the cpu and the gpu pipeline every distributed pass comes before
\* the lowering of arrays to loops, every bufferisation pass before
\* convert-scf-to-cf, and in the gpu pipeline the kernel outlining, the
\* lowering to SPIR-V and the binding to the gpu runtime lie after the loops
\* are generated and before the final lowering to LLVM.
C29_PipelineOrder ==
  (jit.obj.outcome = "ok" /\ ~jit.env.DDPT_PASSES.set) =>
     /\ C29_Ordered(jit.obj.pipeline)
     /\ jit.env.DDPT_USE_GPU.set => C29_GpuBlock(jit.obj.pipeline)
     /\ ~jit.env.DDPT_USE_GPU.set => C29_Pos(jit.obj.pipeline, {"convert-scf-to-cf"}) # {}

\* a JIT with the gpu pipeline, in which the kernels are outlined after the
\* loops are generated and the functions are lowered to LLVM after the binding
\* to the gpu runtime
C29_Witness ==
  /\ jit.obj.outcome = "ok"
  /\ jit.env.DDPT_USE_GPU = SetTo(<<"1">>)
  /\ ~jit.env.DDPT_PASSES.set
  /\ \E i, k, l, m \in DOMAIN jit.obj.pipeline :
        /\ i < k /\ k < l /\ l < m
        /\ jit.obj.pipeline[i].pass = "convert-linalg-to-parallel-loops"
        /\ jit.obj.pipeline[k].pass = "gpu-kernel-outlining"
        /\ jit.obj.pipeline[l].pass = "convert-gpu-to-gpux"
        /\ jit.obj.pipeline[m].pass = "convert-func-to-llvm"

\* the element type each dtype is lowered to, as a table
C24_Table ==
  [dt \in DTypeIds |->
     CASE dt \in {"INT64", "UINT64"} -> "i64"
       [] dt \in {"INT32", "UINT32"} -> "i32"
       [] dt \in {"INT16", "UINT16"} -> "i16"
       [] dt \in {"INT8", "UINT8"} -> "i8"
       [] dt = "BOOL" -> "i1"
       [] dt = "FLOAT32" -> "f32"
       [] dt = "FLOAT64" -> "f64"]

\* C24: each of the eleven dtypes is lowered to its element type, the signed
\* and the unsigned integers of a width to the same signless integer; a dtype
\* tag that is none of them fails with "unknown dtype", in getTType as in
\* dispatch.
C24_DtypeLowering ==
  [][ /\ Cardinality(DTypeIds) = 11
      /\ \A dt \in DTypeIds \cup {DTYPE_LAST} : dispatch(dt).ok <=> dt \in DTypeIds
      /\ \A guid \in DOMAIN registry :
           LET dt == registry[guid].dtype
           IN IF dt \in DTypeIds
                THEN /\ ret'.ok /\ phase' = "emit"
                     /\ ret'.val = [src |-> "arg", n |-> 0, rank |-> registry[guid].rank,
                                    dist |-> registry[guid].team # 0]
                     /\ Len(func'.args) = 1
                     /\ func'.args[1].etyp = C24_Table[dt]
                ELSE /\ ret' = Threw("unknown dtype")
                     /\ dispatch(dt).err = "unknown dtype"
                     /\ func' = func /\ args' = args /\ ivm' = ivm
    ]_vars

\* an array of dtype UINT16 was imported as an argument of element type i16
C24_Witness ==
  /\ registry[1].dtype = "UINT16"
  /\ Len(func.args) = 1
  /\ func.args[1].etyp = "i16"
  /\ ret.ok

\* the import of an array with the tag DTYPE_LAST threw
C24_WitnessUnknown ==
  /\ registry[1].dtype = DTYPE_LAST
  /\ calls # <<>>
  /\ ret = Threw("unknown dtype")

\* the environments of a kind a type carries
C25_Envs(typ, kind) == {typ.envs[i] : i \in {k \in DOMAIN typ.envs : typ.envs[k].kind = kind}}

\* the shape of a halo: zeros where the array has none
C25_Halo(sh, rank) == IF sh.null THEN [i \in 1..rank |-> 0] ELSE sh.v

\* C25: the type of an imported input of team T, rank R and device V is,
\* for T # 0 and R > 0, a distributed type over the global shape with the
\* shapes of the left halo, the owned part and the right halo and the local
\* offsets; for T # 0 and R = 0 a distributed scalar of rank 0; for T = 0 a
\* local type over the owned shape; it carries the gpu(V) environment iff V is
\* not empty and the distributed environment iff T # 0.
C25_TypeSynthesis ==
  [][ \A guid \in DOMAIN registry :
        LET fut == registry[guid]
            typ == func'.args[1]
            dist == C25_Envs(typ, "dist")
            gpu == C25_Envs(typ, "gpu")
        IN fut.dtype \in DTypeIds =>
             /\ Cardinality(dist) + Cardinality(gpu) = Len(typ.envs)
             /\ gpu = IF fut.device # "" THEN {GPUEnvAttr(fut.device)} ELSE {}
             /\ dist # {} <=> fut.team # 0
             /\ (fut.team # 0 /\ fut.rank > 0) =>
                  /\ typ.shape = fut.shape
                  /\ dist = {[kind |-> "dist", team |-> fut.team, rank |-> fut.rank,
                              lOffs |-> fut.local_offsets,
                              parts |-> <<C25_Halo(fut.lh_shape, fut.rank),
                                          fut.local_shape,
                                          C25_Halo(fut.rh_shape, fut.rank)>>,
                              device |-> ""]}
             /\ (fut.team # 0 /\ fut.rank = 0) =>
                  /\ typ.shape = <<>>
                  /\ dist = {[kind |-> "dist", team |-> fut.team, rank |-> 0,
                              lOffs |-> <<>>, parts |-> <<>>, device |-> ""]}
             /\ fut.team = 0 => typ.shape = fut.local_shape
    ]_vars

\* a vector of team 1 on a device, with a right halo and no left one, was
\* imported: its type is over the global shape and has both environments
C25_Witness ==
  /\ registry[1].team = 1 /\ registry[1].rank = 1 /\ registry[1].device = "GPU"
  /\ registry[1].lh_shape.null /\ ~registry[1].rh_shape.null
  /\ Len(func.args) = 1
  /\ func.args[1].shape = <<4>>
  /\ Len(func.args[1].envs) = 2
  /\ \E i \in 1..2 : /\ func.args[1].envs[i].kind = "dist"
                     /\ func.args[1].envs[i].parts = <<<<0>>, <<2>>, <<1>>>>
                     /\ func.args[1].envs[i].lOffs = <<1>>

\* a vector of no team was imported: its type is over the owned shape
C25_WitnessLocal ==
  /\ registry[1].team = 0 /\ registry[1].rank = 1 /\ registry[1].device = ""
  /\ Len(func.args) = 1
  /\ func.args[1].shape = <<2>>
  /\ func.args[1].envs = <<>>

\* the place of the node n in the order of enqueueing
C30_Pos(n) == CHOOSE k \in DOMAIN pushed : pushed[k] = n

\* the nodes whose promise is set
C30_Fulfilled == {fulfilled[i] : i \in DOMAIN fulfilled}

\* the array of the node pushed[k] is dropped by a node enqueued before place p
C30_DroppedBefore(k, p) ==
  \E d \in (k + 1)..(p - 1) : pushed[d].kind = "drop" /\ pushed[d].a = pushed[k].guid

\* C30: a RUN ends the batch and synchronises: its generate_mlir always asks
\* for the eager run, and its promise is set only when every node enqueued
\* before it has generated its MLIR and the module of these nodes has been
\* compiled, invoked and delivered, the promise of every array created before
\* it and not dropped before it being set.
C30_RunSync ==
  [][ /\ (processed' # processed /\ Head(queue).kind = "run") =>
           (eager' = Head(queue) /\ batch' = batch)
      /\ (Len(fulfilled') = Len(fulfilled) + 1 /\ fulfilled'[Len(fulfilled')].kind = "run") =>
           LET n == fulfilled'[Len(fulfilled')]
               p == C30_Pos(n)
           IN /\ phase = "delivered" /\ phase' = "emit"
              /\ eager = n
              /\ processed = SubSeq(pushed, 1, p)
              /\ \A k \in 1..(p - 1) :
                    (pushed[k].kind = "create" /\ ~C30_DroppedBefore(k, p))
                       => pushed[k] \in C30_Fulfilled
              /\ \A k \in 1..(p - 1) :
                    pushed[k].kind \in {"drop", "run"} => pushed[k] \in C30_Fulfilled
    ]_vars

\* an array was created, then a RUN was enqueued; the promise of the array
\* was set by the delivery and the promise of the RUN after it
C30_Witness ==
  /\ Len(pushed) >= 2
  /\ pushed[1].kind = "create" /\ pushed[2].kind = "run"
  /\ Len(fulfilled) = 2
  /\ fulfilled[1] = pushed[1] /\ fulfilled[2] = pushed[2]

\* the node enqueued as number k has its promise set, or a node dropping its
\* array has generated its MLIR
C31_Ready(k) ==
  /\ Len(pushed) >= k
  /\ \/ \E i \in DOMAIN fulfilled : fulfilled[i] = pushed[k]
     \/ \E i \in DOMAIN processed :
           processed[i].kind = "drop" /\ processed[i].a = pushed[k].guid

\* C31: with a worker that keeps running, every enqueued node eventually
\* generates its MLIR, every node that registered a value that is not dropped
\* eventually has its promise set, the node of a RUN has its promise set, and
\* the queue is drained: from some point on the queue is empty, every node
\* enqueued has generated its MLIR and every such promise is set.
C31_Liveness ==
  <>[](/\ queue = <<>>
       /\ processed = pushed
       /\ \A k \in DOMAIN pushed :
             pushed[k].kind \in {"create", "run"} => C31_Ready(k))

\* three nodes were enqueued, all of them have generated their MLIR, the queue
\* is empty and the promise of the array created first is set
C31_Witness ==
  /\ Len(pushed) = MaxNodes
  /\ processed = pushed
  /\ queue = <<>>
  /\ pushed[1].kind = "create"
  /\ \E i \in DOMAIN fulfilled : fulfilled[i] = pushed[1]
  /\ phase = "emit" /\ batch = <<>>

\* the guids the calls cs asked getDependent for, and those they added a value of
C32_Asked(cs) == {cs[i].guid : i \in {k \in DOMAIN cs : cs[k].op = "getDependent"}}

C32_Added(cs) == {cs[i].guid : i \in {k \in DOMAIN cs : cs[k].op = "addVal"}}

\* C32: the state of the DepManager is per module: a new module starts with
\* empty _ivm, _args, _icm, _icr and _irm, so the first getDependent of a
\* module for an array made in an earlier one does not find it in _ivm and
\* imports it from the Registry, and however often it is asked for the array
\* is one argument of the function.
C32_PerCompilation ==
  [][ /\ (phase \in {"delivered", "aborted"} /\ phase' = "emit") =>
           /\ ivm' = <<>> /\ args' = <<>>
           /\ icm' = EmptyFn /\ icr' = EmptyFn /\ irm' = EmptyFn
      /\ (phase' = "emit" /\ calls' # calls /\ calls' # <<>>) =>
           LET c == calls'[Len(calls')]
               at == {i \in DOMAIN args' : args'[i].guid = c.guid}
           IN (c.op = "getDependent" /\ c.guid \notin C32_Added(calls)) =>
                 /\ Cardinality(at) = 1
                 /\ \A i \in at : /\ args'[i].fut = registry[c.guid]
                                  /\ func'.args[i] = getTType(registry[c.guid])
                 /\ c.guid \notin C32_Asked(calls) =>
                      (~MapHas(ivm, c.guid) /\ Len(args') = Len(args) + 1)
                 /\ c.guid \in C32_Asked(calls) => args' = args
    ]_vars

\* an array made and delivered in one module was asked for twice in the next
\* module, which has it as its one argument
C32_Witness ==
  /\ phase = "emit"
  /\ 1 \in DOMAIN nodes /\ nodes[1].emitted
  /\ calls = <<[op |-> "getDependent", guid |-> 1], [op |-> "getDependent", guid |-> 1]>>
  /\ Len(args) = 1 /\ args[1].guid = 1
  /\ Len(func.args) = 1

\* the guids of the pairs in a
C33_Inputs(a) == {a[i].guid : i \in DOMAIN a}

\* the words of the entries of m that irm r has and that are not in skip
RECURSIVE C33_Words(_, _, _)
C33_Words(m, r, skip) ==
  IF m = <<>> THEN 0
  ELSE (IF Head(m).guid \in skip \/ Head(m).guid \notin DOMAIN r THEN 0
        ELSE ptensor_sz(r[Head(m).guid].rank, r[Head(m).guid].dist))
       + C33_Words(Tail(m), r, skip)

\* C33 as stated: in whichever order store_inputs and handleResult were called,
\* once both have run no input of the function is among its return values, is
\* counted in the output size or is delivered.
C33_Original ==
  phase \in {"finalised", "invoked", "delivered"} =>
    /\ \A g \in C33_Inputs(args) : g \notin DOMAIN irm
    /\ Len(func.results) = Len(ivm)
    /\ osz = 2 * C33_Words(ivm, irm, C33_Inputs(args))
    /\ \A i \in DOMAIN delivered : delivered[i].guid \notin C33_Inputs(args)

\* C33: no delivery callback is invoked for an input of the function in either
\* order, and when store_inputs ran before handleResult no input is among the
\* return values or counted in the output size.
C33_InputsNotReturned ==
  [][ /\ (phase = "stored" /\ phase' = "finalised") =>
           /\ \A g \in C33_Inputs(args) : g \notin DOMAIN irm' /\ ~MapHas(ivm, g)
           /\ Len(func'.results) = Len(ivm)
           /\ osz' = 2 * C33_Words(ivm', irm', C33_Inputs(args))
           /\ osz' = 2 * C33_Words(ivm', irm', {})
      /\ \A i \in DOMAIN delivered' : delivered'[i].guid \notin C33_Inputs(args')
    ]_vars

\* a function with one input and one result of its own was closed with
\* store_inputs first and has delivered the result
C33_Witness ==
  /\ phase = "delivered"
  /\ Len(args) = 1
  /\ inp # <<>>
  /\ Len(delivered) = 1
  /\ Len(func.results) = 1
  /\ DOMAIN irm = {delivered[1].guid}
  /\ args[1].guid \notin DOMAIN irm

\* a function with one input and one result of its own was closed with
\* handleResult first: the input is a return value
C33_WitnessLate ==
  /\ phase = "finalised"
  /\ Len(args) = 1
  /\ args[1].guid \in DOMAIN irm
  /\ Len(func.results) = 2
  /\ Len(ivm) = 1

\* C34: when deliver runs on a function closed by store_inputs and then
\* handleResult, every guid of _ivm has a delivery callback in _icm and a
\* (rank, is distributed) pair in _irm, and deliver does not reach assert(false).
C34_DeliverComplete ==
  [][ (phase = "invoked" /\ phase' # "invoked") =>
        /\ \A i \in DOMAIN ivm : /\ ivm[i].guid \in DOMAIN icm
                                 /\ ivm[i].guid \in DOMAIN irm
        /\ phase' = "delivered"
        /\ ret'.ok
        /\ Len(delivered') = Len(ivm)
    ]_vars

\* deliver is about to run on a function that imported an input, which
\* store_inputs took out of _ivm, and made a value of its own
C34_Witness ==
  /\ phase = "invoked"
  /\ Len(args) = 1
  /\ ~MapHas(ivm, args[1].guid)
  /\ Len(ivm) = 1
  /\ ivm[1].guid \in DOMAIN icm
  /\ ivm[1].guid \in DOMAIN irm

\* C35: a getDependent(g) that fails, g being neither in _ivm nor in the
\* Registry, leaves _ivm, _args, _icm, _icr, _irm, the Registry and the
\* function as they were: no argument is inserted and no pair appended.
C35_FailedLookupFrame ==
  [][ \A g \in Guids :
        (IsCall("getDependent", g) /\ ~ret'.ok) =>
          /\ ret'.err = "UnknownGuid"
          /\ ~MapHas(ivm, g) /\ g \notin DOMAIN registry
          /\ ivm' = ivm /\ args' = args /\ icm' = icm /\ icr' = icr
          /\ irm' = irm /\ registry' = registry
          /\ func' = func
    ]_vars

\* an array was imported as the argument of the function and dropped, and the
\* getDependent for it that followed failed
C35_Witness ==
  /\ phase = "aborted"
  /\ ~ret.ok /\ ret.err = "UnknownGuid"
  /\ Len(calls) = 3
  /\ calls[1].op = "getDependent" /\ calls[2].op = "drop"
  /\ calls[3] = [op |-> "getDependent", guid |-> calls[1].guid]
  /\ calls[2].guid = calls[1].guid
  /\ Len(args) = 1 /\ Len(func.args) = 1

\* C36: a drop of a guid that the function imported as an argument leaves
\* _args and the function as they were; store_inputs then still returns the
\* descriptor words of the dropped argument at its position, from the future
\* _args kept, and deliver invokes no callback for it.
C36_DropOfInput ==
  [][ /\ \A g \in Guids :
           (IsCall("drop", g) /\ g \in ArgGuids) =>
             /\ args' = args
             /\ func' = func
             /\ g \notin DOMAIN registry'
      /\ (phase = "emit" /\ phase' = "stored") =>
           \A i \in DOMAIN args :
             args[i].guid \in dropped =>
               LET off == Len(C13_Words(SubSeq(args, 1, i - 1)))
                   n == memref_sz(args[i].fut.rank)
               IN /\ Len(inp') >= off + n
                  /\ \A k \in 1..n : inp'[off + k] = args[i].guid
                  /\ Len(func.args) = Len(args)
      /\ phase' = "delivered" =>
           \A i \in DOMAIN delivered' : delivered'[i].guid \notin (dropped' \cap ArgGuids')
    ]_vars

\* an imported argument was dropped; the function was closed with the argument
\* still declared, its words were stored and nothing was delivered
C36_Witness ==
  /\ phase = "delivered"
  /\ Len(args) = 1 /\ Len(func.args) = 1
  /\ args[1].guid \in dropped
  /\ args[1].guid \notin DOMAIN registry
  /\ inp = C13_Words(args)
  /\ Len(inp) = memref_sz(args[1].fut.rank)
  /\ delivered = <<>>

\* the run compiled its module and got no engine out of it: the pass pipeline
\* or the construction of the engine failed
C37_CompileFailed(r) == r.piped /\ ~r.built

\* C37: with the cache enabled, a run whose compile failed, in the pass pipeline
\* or in the construction of the engine, leaves the cache as it was, and a run
\* of the same text right after it compiles again; a run whose lookup of the
\* function failed invoked nothing and leaves the engine it built in the cache.
C37_FailedCompile ==
  [][ (useCache /\ Len(ran') = Len(ran) + 1) =>
        LET r == ran'[Len(ran')]
        IN /\ C37_CompileFailed(r) =>
                /\ engineCache' = engineCache
                /\ sha1(r.text) \notin DOMAIN engineCache'
           /\ (ran # <<>> /\ C37_CompileFailed(ran[Len(ran)])
                 /\ ran[Len(ran)].text = r.text) => r.piped
           /\ r.outcome = "InvokeFailure" =>
                /\ sha1(r.text) \in DOMAIN engineCache'
                /\ engineCache'[sha1(r.text)] = r.engine
                /\ r.engine.valid
                /\ r.built => sha1(r.text) \notin DOMAIN engineCache
    ]_vars

\* the construction of the engine failed in a build without assert: the cache
\* has an entry that is no engine
C37_WitnessNoEngine ==
  /\ useCache
  /\ ran # <<>>
  /\ C37_CompileFailed(ran[Len(ran)])
  /\ sha1(ran[Len(ran)].text) \in DOMAIN engineCache
  /\ ~engineCache[sha1(ran[Len(ran)].text)].valid

\* C38: every node reports from factory() the id its class is registered under
\* with FACTORY_INIT, so nodes of different classes report different ids.
C38_FactoryIds ==
  /\ \A i \in DOMAIN pushed : pushed[i].factory = RegisteredId(pushed[i].class)
  /\ \A i, k \in DOMAIN pushed :
       pushed[i].class # pushed[k].class => pushed[i].factory # pushed[k].factory

\* a DeferredArange and a DeferredLinspace were enqueued and report one id
C38_WitnessSameId ==
  /\ Len(pushed) = 2
  /\ pushed[1].class = "DeferredArange" /\ pushed[2].class = "DeferredLinspace"
  /\ pushed[1].factory = pushed[2].factory

\* the least integer not below a / b
C39_Ceil(a, b) == IF a % b = 0 THEN a \div b ELSE a \div b + 1

\* the node of the arange and the operation its generate_mlir emitted
C39_Emitted == processed # <<>> /\ Len(func.body) = 1

\* C39 as stated: for start <= end and step >= 1 the array emitted is of rank 1
\* and has ceil((end - start) / step) elements, which is the word
\* (end - start + step - 1) / step
C39_Original ==
  C39_Emitted =>
    LET n == processed[1]
        op == func.body[1]
    IN (n.start <= n.end /\ n.step >= 1) =>
         /\ op.rank = 1
         /\ op.num = C39_Ceil(n.end - n.start, n.step)
         /\ op.num = u64(n.end - n.start + n.step - 1) \div n.step

\* C39: for start <= end and step >= 1 the array emitted is of rank 1 and has
\* (end - start + step - 1) / step elements in the arithmetic of the unsigned
\* word; this is ceil((end - start) / step), 0 for start = end and 10 for
\* arange(0, 10, 1), whenever end - start + step - 1 does not overflow the word.
C39_ArangeSize ==
  /\ DeferredArange_num(0, 10, 1) = 10
  /\ C39_Emitted =>
       LET n == processed[1]
           op == func.body[1]
       IN (n.start <= n.end /\ n.step >= 1) =>
            /\ op.rank = 1
            /\ MapHas(ivm, n.guid) /\ MapGet(ivm, n.guid).rank = 1
            /\ op.num = u64(n.end - n.start + n.step - 1) \div n.step
            /\ n.end - n.start + n.step - 1 < Word =>
                 op.num = C39_Ceil(n.end - n.start, n.step)
            /\ n.start = n.end => op.num = 0

\* arange(1, 10, 4) was emitted with its 3 elements
C39_Witness ==
  /\ C39_Emitted
  /\ processed[1].start = 1 /\ processed[1].end = 10 /\ processed[1].step = 4
  /\ func.body[1].num = 3
  /\ func.body[1].op = "LinSpaceOp"

\* an arange whose end - start + step - 1 overflows the word was emitted with
\* fewer elements than ceil((end - start) / step)
C39_WitnessOverflow ==
  /\ C39_Emitted
  /\ processed[1].start <= processed[1].end /\ processed[1].step >= 1
  /\ processed[1].end - processed[1].start + processed[1].step - 1 >= Word
  /\ func.body[1].num < C39_Ceil(processed[1].end - processed[1].start, processed[1].step)

====
